---- MODULE Spec2Model ----
(***************************************************************************)
(* A model of the Monkey implementation in TypeScript: the symbol table,   *)
(* the bytecode compiler, the stack virtual machine and the tree-walking   *)
(* evaluator.  Every definition is translated from the source file named   *)
(* for it in MODEL_MAP.json.                                               *)
(***************************************************************************)
EXTENDS Integers, Sequences, FiniteSets, TLC

VARIABLES
    tables,       \* SymbolTable chain under test: tables[1] has no outer, tables[i].outer = tables[i-1]
    symLast,      \* ghost: the last symbol-table call and its result
    prog,         \* the program at hand: an index into the programs of the specification
    comp,         \* the Compiler that compiles it
    vm,           \* the VM that runs its bytecode
    last,         \* ghost: the opcode the VM executed last and the VM as it was before
    ev,           \* the tree-walking evaluator's run of the same program
    repl,         \* the REPL's loop: what it keeps from one line to the next
    code          \* an instruction being encoded and read back, or a listing being made

symVars == <<tables, symLast>>

progVars == <<prog, comp, vm, last, ev, repl, code>>

vars == <<tables, symLast, prog, comp, vm, last, ev, repl, code>>

-----------------------------------------------------------------------------
(* Bounds of the symbol-table specification *)

MaxTables == 3
MaxDefs == 2
MaxSymCalls == 4

SymNames == {"a", "b"}

\* Bounds of the program specifications: the integer arguments the programs are
\* given, and the frame depth up to which the ghost of a call keeps the stack
MaxArg == 2
TrackDepth == 3

\* Bound on the turns of the loop of run() when a run is taken as one step
MaxTurns == 65536

\* Bounds of the programs that recurse without end: their parameters and lets
MaxDeepParams == 3
MaxDeepLets == 3

-----------------------------------------------------------------------------
(* symbol_table.ts *)

GlobalScope == "GLOBAL"
LocalScope == "LOCAL"
BuiltinScope == "BUILTIN"
FreeScope == "FREE"
FunctionScope == "FUNCTION"

\* the result `undefined` of resolve
NoSymbol == [name |-> "", scope |-> "UNDEFINED", index |-> 0 - 1]

ISymbol(n, s, i) == [name |-> n, scope |-> s, index |-> i]

EmptyStore == [n \in {} |-> NoSymbol]

NewSymbolTable == [store |-> EmptyStore, numDefinitions |-> 0, freeSymbols |-> <<>>]

StorePut(store, n, sym) == [k \in (DOMAIN store) \cup {n} |-> IF k = n THEN sym ELSE store[k]]

\* define(name) on table t of the chain ts
define(ts, t, n) ==
    LET scope == IF t > 1 THEN LocalScope ELSE GlobalScope
        symbol == ISymbol(n, scope, ts[t].numDefinitions)
    IN  [sym |-> symbol,
         tables |-> [ts EXCEPT ![t].store = StorePut(@, n, symbol),
                               ![t].numDefinitions = @ + 1]]

\* a defineBuiltin that numbers the symbol as define does
defineBuiltin_numDefinitions(ts, t, i, n) ==
    LET symbol == ISymbol(n, BuiltinScope, ts[t].numDefinitions)
    IN  [sym |-> symbol, tables |-> [ts EXCEPT ![t].store = StorePut(@, n, symbol)]]

defineBuiltin(ts, t, i, n) ==
    LET symbol == ISymbol(n, BuiltinScope, i)
    IN  [sym |-> symbol, tables |-> [ts EXCEPT ![t].store = StorePut(@, n, symbol)]]

defineFunctionName_counted(ts, t, n) ==
    LET symbol == ISymbol(n, FunctionScope, 0)
    IN  [sym |-> symbol, tables |-> [ts EXCEPT ![t].store = StorePut(@, n, symbol),
                                               ![t].numDefinitions = @ + 1]]

defineFunctionName_local(ts, t, n) ==
    LET symbol == ISymbol(n, LocalScope, 0)
    IN  [sym |-> symbol, tables |-> [ts EXCEPT ![t].store = StorePut(@, n, symbol)]]

defineFunctionName(ts, t, n) ==
    LET symbol == ISymbol(n, FunctionScope, 0)
    IN  [sym |-> symbol, tables |-> [ts EXCEPT ![t].store = StorePut(@, n, symbol)]]

defineFree_offByOne(ts, t, original) ==
    LET free == Append(ts[t].freeSymbols, original)
        symbol == ISymbol(original.name, FreeScope, Len(free))
    IN  [sym |-> symbol,
         tables |-> [ts EXCEPT ![t].freeSymbols = free,
                               ![t].store = StorePut(@, original.name, symbol)]]

defineFree_notStored(ts, t, original) ==
    LET free == Append(ts[t].freeSymbols, original)
        symbol == ISymbol(original.name, FreeScope, Len(free) - 1)
    IN  [sym |-> symbol, tables |-> [ts EXCEPT ![t].freeSymbols = free]]

defineFree(ts, t, original) ==
    LET free == Append(ts[t].freeSymbols, original)
        symbol == ISymbol(original.name, FreeScope, Len(free) - 1)
    IN  [sym |-> symbol,
         tables |-> [ts EXCEPT ![t].freeSymbols = free,
                               ![t].store = StorePut(@, original.name, symbol)]]

RECURSIVE resolve_impliesGlobal(_, _, _)
resolve_impliesGlobal(ts, t, n) ==
    IF n \in DOMAIN ts[t].store THEN [sym |-> ts[t].store[n], tables |-> ts]
    ELSE IF t = 1 THEN [sym |-> NoSymbol, tables |-> ts]
    ELSE LET obj == resolve_impliesGlobal(ts, t - 1, n)
         IN  IF obj.sym = NoSymbol THEN defineFree(obj.tables, t, ISymbol(n, GlobalScope, 0))
             ELSE IF obj.sym.scope \in {GlobalScope, BuiltinScope} THEN obj
             ELSE defineFree(obj.tables, t, obj.sym)

RECURSIVE resolve_promotesAll(_, _, _)
resolve_promotesAll(ts, t, n) ==
    IF n \in DOMAIN ts[t].store THEN [sym |-> ts[t].store[n], tables |-> ts]
    ELSE IF t = 1 THEN [sym |-> NoSymbol, tables |-> ts]
    ELSE LET obj == resolve_promotesAll(ts, t - 1, n)
         IN  IF obj.sym = NoSymbol THEN [sym |-> NoSymbol, tables |-> obj.tables]
             ELSE defineFree(obj.tables, t, obj.sym)

RECURSIVE resolve(_, _, _)
resolve(ts, t, n) ==
    IF n \in DOMAIN ts[t].store THEN [sym |-> ts[t].store[n], tables |-> ts]
    ELSE IF t = 1 THEN [sym |-> NoSymbol, tables |-> ts]
    ELSE LET obj == resolve(ts, t - 1, n)
         IN  IF obj.sym = NoSymbol THEN [sym |-> NoSymbol, tables |-> obj.tables]
             ELSE IF obj.sym.scope \in {GlobalScope, BuiltinScope} THEN obj
             ELSE defineFree(obj.tables, t, obj.sym)

-----------------------------------------------------------------------------
(* code.ts: opcodes, operand widths, make and the operand readers *)

OpConstant == 0
OpTrue == 1
OpFalse == 2
OpNull == 3
OpPop == 4
OpMinus == 5
OpBang == 6
OpAdd == 7
OpSub == 8
OpMul == 9
OpDiv == 10
OpEqual == 11
OpNotEqual == 12
OpGreaterThan == 13
OpJumpNotTruthy == 14
OpJump == 15
OpGetGlobal == 16
OpSetGlobal == 17
OpGetLocal == 18
OpSetLocal == 19
OpGetBuiltin == 20
OpArray == 21
OpHash == 22
OpIndex == 23
OpCall == 24
OpReturnValue == 25
OpReturnNull == 26
OpClosure == 27
OpGetFree == 28
OpCurrentClosure == 29

\* definitions[op].operandWidths
operandWidths(op) ==
    CASE op \in {OpConstant, OpJumpNotTruthy, OpJump, OpGetGlobal, OpSetGlobal, OpArray, OpHash} -> <<2>>
      [] op \in {OpGetLocal, OpSetLocal, OpGetBuiltin, OpCall, OpGetFree} -> <<1>>
      [] op = OpClosure -> <<2, 1>>
      [] OTHER -> <<>>

\* lookupDefinition(op) is defined exactly for the thirty opcodes
lookupDefinition(op) == op \in OpConstant..OpCurrentClosure

\* Buffer.writeUint8 / Buffer.writeUint16BE of an operand that fits its width
writeUint(width, operand) ==
    IF width = 2 THEN <<(operand \div 256) % 256, operand % 256>> ELSE <<operand % 256>>

RECURSIVE makeOperands(_, _)
makeOperands(widths, operands) ==
    IF widths = <<>> THEN <<>>
    ELSE (IF operands = <<>> THEN writeUint(Head(widths), 0) ELSE writeUint(Head(widths), Head(operands)))
         \o makeOperands(Tail(widths), IF operands = <<>> THEN <<>> ELSE Tail(operands))

make(op, operands) ==
    IF ~lookupDefinition(op) THEN <<>> ELSE <<op>> \o makeOperands(operandWidths(op), operands)

\* instructions.readUInt8(offset), instructions.readUint16BE(offset): offsets count from 0
readUInt8(ins, offset) == ins[offset + 1]
\* the two bytes read with the low byte first
readUint16BE_lowFirst(ins, offset) == ins[offset + 1] + ins[offset + 2] * 256
readUint16BE(ins, offset) == ins[offset + 1] * 256 + ins[offset + 2]

\* definitions[op].name
opNames ==
    <<"OpConstant", "OpTrue", "OpFalse", "OpNull", "OpPop", "OpMinus", "OpBang", "OpAdd",
      "OpSub", "OpMul", "OpDiv", "OpEqual", "OpNotEqual", "OpGreaterThan", "OpJumpNotTruthy",
      "OpJump", "OpGetGlobal", "OpSetGlobal", "OpGetLocal", "OpSetLocal", "OpGetBuiltin",
      "OpArray", "OpHash", "OpIndex", "OpCall", "OpReturnValue", "OpReturnNull", "OpClosure",
      "OpGetFree", "OpCurrentClosure">>

\* the loop of readOperands over def.operandWidths; a read that leaves the
\* buffer throws a RangeError.  A definition is named by its opcode.
RECURSIVE readWidths(_, _, _, _)
readWidths(widths, ins, offset, operands) ==
    IF widths = <<>> THEN [operands |-> operands, offset |-> offset, threw |-> FALSE]
    ELSE IF offset + Head(widths) > Len(ins)
         THEN [operands |-> operands, offset |-> offset, threw |-> TRUE]
         ELSE readWidths(Tail(widths), ins, offset + Head(widths),
                         Append(operands, IF Head(widths) = 2 THEN readUint16BE(ins, offset)
                                          ELSE readUInt8(ins, offset)))

readOperands(def, ins, startOffset) ==
    LET r == readWidths(operandWidths(def), ins, startOffset, <<>>)
    IN  [operands |-> r.operands, bytesRead |-> r.offset - startOffset, threw |-> r.threw]

\* str.padStart(targetLength, padString) for a padString of one character
RECURSIVE padStart(_, _, _)
padStart(str, targetLength, padString) ==
    IF Len(str) >= targetLength THEN str ELSE padStart(padString \o str, targetLength, padString)

formatInstruction(def, operands) ==
    IF Len(operands) # Len(operandWidths(def))
    THEN "ERROR: operand len " \o ToString(Len(operands)) \o " does not match defined "
         \o ToString(Len(operandWidths(def)))
    ELSE CASE Len(operands) = 0 -> opNames[def + 1]
           [] Len(operands) = 1 -> opNames[def + 1] \o " " \o ToString(operands[1])
           [] Len(operands) = 2 ->
                opNames[def + 1] \o " " \o ToString(operands[1]) \o " " \o ToString(operands[2])
           [] OTHER -> "ERROR: unhandled operand count for " \o opNames[def + 1]

\* the listing of disassemble under way: the lines s pushed so far, the offset
\* of the next turn of its loop
NewListing(ins) == [phase |-> "listing", ins |-> ins, offset |-> 0, s |-> <<>>]

\* one turn of the loop of disassemble.  At a byte without a definition the
\* turn pushes its line and continues with offset unchanged: the loop reads
\* only instructions and offset, so this turn repeats without end ("nonfinite").
disassembleTurn(d) ==
    LET byte == readUInt8(d.ins, d.offset)
        readResponse == readOperands(byte, d.ins, d.offset + 1)
    IN  IF ~lookupDefinition(byte)
        THEN [d EXCEPT !.s = Append(@, "ERROR: invalid opcode " \o ToString(byte)),
                       !.phase = "nonfinite"]
        ELSE IF readResponse.threw THEN [d EXCEPT !.phase = "threw"]
        ELSE [d EXCEPT !.s = Append(@, padStart(ToString(d.offset), 4, "0") \o " "
                                       \o formatInstruction(byte, readResponse.operands)),
                       !.offset = @ + 1 + readResponse.bytesRead]

\* s.join(separator)
RECURSIVE join(_, _)
join(s, separator) ==
    IF s = <<>> THEN ""
    ELSE IF Len(s) = 1 THEN s[1]
    ELSE s[1] \o separator \o join(Tail(s), separator)

-----------------------------------------------------------------------------
(* object.ts, builtins.ts: runtime values.  Every object carries its identity *)
(* `id`: the singletons and the integers handed out by INTEGER() have fixed   *)
(* ones, an object made by `new` gets the next negative one.                  *)

TRUE_ID == 1
FALSE_ID == 2
NULL_ID == 3
EMPTY_ID == 4
BUILTIN_ID == 10
INTEGER_ID == 1000

Undefined == [type |-> "UNDEFINED", id |-> 0]
NULL == [type |-> "NULL", id |-> NULL_ID]
EMPTY == [type |-> "EMPTY", id |-> EMPTY_ID]
BOOLEAN_TRUE == [type |-> "BOOLEAN", id |-> TRUE_ID, value |-> TRUE]
BOOLEAN_FALSE == [type |-> "BOOLEAN", id |-> FALSE_ID, value |-> FALSE]

Abs(v) == IF v < 0 THEN 0 - v ELSE v

\* new IntegerObj(value): a fresh object
IntegerObj(id, v) == [type |-> "INTEGER", id |-> id, value |-> v]

\* INTEGER(value): the one object integerMap keeps for the value
INTEGER(v) == IntegerObj(INTEGER_ID + 2 * Abs(v) + (IF v < 0 THEN 1 ELSE 0), v)

StringObj(id, v) == [type |-> "STRING", id |-> id, value |-> v]
ArrayObj(id, els) == [type |-> "ARRAY", id |-> id, elements |-> els]
HashObj(id, pairs) == [type |-> "HASH", id |-> id, pairs |-> pairs]
ErrorObj(msg) == [type |-> "ERROR", id |-> 0, message |-> msg]
CompiledFunctionObj(id, ins, numLocals, numParameters) ==
    [type |-> "COMPILED_FUNCTION", id |-> id, instructions |-> ins,
     numLocals |-> numLocals, numParameters |-> numParameters]
ClosureObj(id, func, free) == [type |-> "CLOSURE", id |-> id, func |-> func, free |-> free]

\* the builtin table, in its fixed order (index = position - 1)
BuiltinNames == <<"len", "puts", "first", "last", "rest", "push">>
BuiltinObj(i) == [type |-> "BUILTIN", id |-> BUILTIN_ID + i, index |-> i]

-----------------------------------------------------------------------------
(* ast.ts: the syntax tree the parser hands to the compiler and the evaluator *)

NoNode == [kind |-> "None"]
Program(stmts) == [kind |-> "Program", statements |-> stmts]
BlockStatement(stmts) == [kind |-> "BlockStatement", statements |-> stmts]
ExpressionStatement(e) == [kind |-> "ExpressionStatement", value |-> e]
ReturnStatement(e) == [kind |-> "ReturnStatement", value |-> e]
Identifier(n) == [kind |-> "Identifier", value |-> n]
IntegerLiteral(v) == [kind |-> "IntegerLiteral", value |-> v]
BooleanLiteral(b) == [kind |-> "BooleanLiteral", value |-> b]
StringLiteral(str) == [kind |-> "StringLiteral", value |-> str]
PrefixExpression(op, r) == [kind |-> "PrefixExpression", operator |-> op, right |-> r]
InfixExpression(op, l, r) == [kind |-> "InfixExpression", operator |-> op, left |-> l, right |-> r]
IfExpression(c, cons, alt) ==
    [kind |-> "IfExpression", condition |-> c, consequence |-> cons, alternative |-> alt]
IndexExpression(l, i) == [kind |-> "IndexExpression", left |-> l, index |-> i]
CallExpression(f, args) == [kind |-> "CallExpression", func |-> f, args |-> args]
ArrayLiteral(els) == [kind |-> "ArrayLiteral", elements |-> els]
\* pairs: the <<key, value>> expression pairs in source order
HashLiteral(pairs) == [kind |-> "HashLiteral", pairs |-> pairs]
\* parameters: the parameter names; name: "" unless the parser bound one
FunctionLiteral(params, body) ==
    [kind |-> "FunctionLiteral", parameters |-> params, body |-> body, name |-> ""]
\* parseLetStatement: a function literal on the right of a let gets the let's name
\* new AssignmentStatement(token, identifier, exp)
AssignmentStatement(n, v) == [kind |-> "AssignmentStatement", name |-> n, value |-> v]
\* new WhileExpression(token, condition, loop), loop a BlockStatement
WhileExpression(c, l) == [kind |-> "WhileExpression", condition |-> c, loop |-> l]
\* new BreakStatement(token)
BreakStatement == [kind |-> "BreakStatement"]

LetStatement(n, v) ==
    [kind |-> "LetStatement", name |-> n,
     value |-> IF v.kind = "FunctionLiteral" THEN [v EXCEPT !.name = n] ELSE v]

\* charCodeAt for the characters the modelled programs use
CharCode(ch) ==
    CASE ch = "0" -> 48 [] ch = "1" -> 49 [] ch = "2" -> 50 [] ch = "3" -> 51 [] ch = "4" -> 52
      [] ch = "5" -> 53 [] ch = "6" -> 54 [] ch = "7" -> 55 [] ch = "8" -> 56 [] ch = "9" -> 57
      [] ch = "-" -> 45
      [] ch = "a" -> 97 [] ch = "b" -> 98 [] ch = "c" -> 99 [] ch = "d" -> 100 [] ch = "e" -> 101
      [] ch = "f" -> 102 [] ch = "g" -> 103 [] ch = "h" -> 104 [] ch = "i" -> 105 [] ch = "j" -> 106
      [] ch = "k" -> 107 [] ch = "l" -> 108 [] ch = "m" -> 109 [] ch = "n" -> 110 [] ch = "o" -> 111
      [] ch = "p" -> 112 [] ch = "q" -> 113 [] ch = "r" -> 114 [] ch = "s" -> 115 [] ch = "t" -> 116
      [] ch = "u" -> 117 [] ch = "v" -> 118 [] ch = "w" -> 119 [] ch = "x" -> 120 [] ch = "y" -> 121
      [] ch = "z" -> 122
      [] OTHER -> 63

\* a < b on JavaScript strings: by code units, a proper prefix first
RECURSIVE StringLess(_, _)
StringLess(a, b) ==
    IF b = "" THEN FALSE
    ELSE IF a = "" THEN TRUE
    ELSE IF CharCode(Head(a)) # CharCode(Head(b)) THEN CharCode(Head(a)) < CharCode(Head(b))
    ELSE StringLess(Tail(a), Tail(b))

\* node.string() of the expressions the modelled programs use as hash keys
NodeString(node) ==
    CASE node.kind = "IntegerLiteral" -> ToString(node.value)
      [] node.kind = "StringLiteral" -> node.value
      [] node.kind = "BooleanLiteral" -> IF node.value THEN "true" ELSE "false"
      [] node.kind = "Identifier" -> node.value
      [] OTHER -> ""

\* keys.sort((a, b) => a.string() < b.string() ? -1 : 1) on pairs whose keys print
\* differently: insertion of each pair after the pairs that print smaller
RECURSIVE SortPairs(_)
InsertPair(sorted, pr) ==
    LET smaller == {i \in 1..Len(sorted) : StringLess(NodeString(sorted[i][1]), NodeString(pr[1]))}
        k == Cardinality(smaller)
    IN  SubSeq(sorted, 1, k) \o <<pr>> \o SubSeq(sorted, k + 1, Len(sorted))
SortPairs(pairs) ==
    IF pairs = <<>> THEN <<>> ELSE InsertPair(SortPairs(SubSeq(pairs, 1, Len(pairs) - 1)), pairs[Len(pairs)])

-----------------------------------------------------------------------------
(* compiler.ts.  A compiler is the record c: constants, the chain of symbol    *)
(* tables (the last one is this.symbolTable), scopes, scopeIndex.  err is the  *)
(* message of the CompileError thrown ("" while none is): once it is set every *)
(* later step of the compilation is skipped, as the exception skips it.        *)
(* nextId is the identity the next `new` object gets.  fnLog is a ghost: for   *)
(* every function literal compiled, what the compiler knew when it emitted its *)
(* OpClosure.  Two more ghosts follow the syntax alone: fns is the stack of the *)
(* function literals being compiled, each with its name, its parameters and    *)
(* the names of the let statements of its body met so far; refLog has, for     *)
(* every identifier compiled, the opcode it was compiled to.  compiled tells   *)
(* that compile() has returned or thrown.                                      *)

NoInstruction == [opcode |-> 0 - 1, position |-> 0 - 1]
NewScope == [instructions |-> <<>>, lastInstruction |-> NoInstruction,
             previousInstruction |-> NoInstruction]

RECURSIVE defineBuiltins(_, _)
defineBuiltins(ts, i) ==
    IF i >= Len(BuiltinNames) THEN ts
    ELSE defineBuiltins(defineBuiltin(ts, 1, i, BuiltinNames[i + 1]).tables, i + 1)

\* new Compiler(symbolTable, constants); firstId: the first unused object identity
NewCompilerWith(symbolTable, constants, firstId) ==
    [constants |-> constants, tables |-> <<symbolTable>>, scopes |-> <<NewScope>>,
     scopeIndex |-> 0, err |-> "", nextId |-> firstId, fnLog |-> <<>>, fns |-> <<>>,
     refLog |-> <<>>, ifLog |-> <<>>, compiled |-> FALSE]

\* new Compiler()
NewCompiler ==
    [constants |-> <<>>, tables |-> defineBuiltins(<<NewSymbolTable>>, 0), scopes |-> <<NewScope>>,
     scopeIndex |-> 0, err |-> "", nextId |-> 0 - 1, fnLog |-> <<>>, fns |-> <<>>,
     refLog |-> <<>>, ifLog |-> <<>>, compiled |-> FALSE]

CompileError(c, msg) == [c EXCEPT !.err = msg]

currentInstructions(c) == c.scopes[c.scopeIndex + 1].instructions

addConstant(c, obj) == [c EXCEPT !.constants = Append(@, obj)]

addInstruction(c, instruction) ==
    [c EXCEPT !.scopes[c.scopeIndex + 1].instructions = @ \o instruction]

setLastInstruction(c, op, position) ==
    [c EXCEPT !.scopes[c.scopeIndex + 1].previousInstruction = c.scopes[c.scopeIndex + 1].lastInstruction,
              !.scopes[c.scopeIndex + 1].lastInstruction = [opcode |-> op, position |-> position]]

\* emit returns the position Len(currentInstructions(c)) the instruction is put at
emit(c, op, operands) ==
    IF c.err # "" THEN c
    ELSE setLastInstruction(addInstruction(c, make(op, operands)), op, Len(currentInstructions(c)))

isLastOp(c, op) == c.scopes[c.scopeIndex + 1].lastInstruction.opcode = op

removePop(c) ==
    LET scope == c.scopes[c.scopeIndex + 1]
    IN  [c EXCEPT !.scopes[c.scopeIndex + 1].instructions = SubSeq(@, 1, scope.lastInstruction.position),
                  !.scopes[c.scopeIndex + 1].lastInstruction = scope.previousInstruction]

replaceInstruction(c, position, newInstruction) ==
    [c EXCEPT !.scopes[c.scopeIndex + 1].instructions =
        [i \in 1..Len(@) |-> IF i - 1 >= position /\ i - 1 < position + Len(newInstruction)
                             THEN newInstruction[i - position] ELSE @[i]]]

replacePopWithReturn(c) ==
    LET lastPosition == c.scopes[c.scopeIndex + 1].lastInstruction.position
    IN  [replaceInstruction(c, lastPosition, make(OpReturnValue, <<>>))
            EXCEPT !.scopes[c.scopeIndex + 1].lastInstruction.opcode = OpReturnValue]

changeOperand_relative(c, opPosition, operand) ==
    IF c.err # "" THEN c
    ELSE replaceInstruction(c, opPosition,
                            make(currentInstructions(c)[opPosition + 1], <<operand - opPosition>>))

changeOperand(c, opPosition, operand) ==
    IF c.err # "" THEN c
    ELSE replaceInstruction(c, opPosition, make(currentInstructions(c)[opPosition + 1], <<operand>>))

enterScope(c) ==
    [c EXCEPT !.scopes = Append(@, NewScope),
              !.tables = Append(@, NewSymbolTable),
              !.scopeIndex = @ + 1]

leaveScope_keepsTable(c) ==
    [c EXCEPT !.scopes = SubSeq(@, 1, Len(@) - 1),
              !.scopeIndex = @ - 1]

leaveScope(c) ==
    [c EXCEPT !.scopes = SubSeq(@, 1, Len(@) - 1),
              !.scopeIndex = @ - 1,
              !.tables = SubSeq(@, 1, Len(@) - 1)]

loadSymbol(c, sym) ==
    CASE sym.scope = GlobalScope -> emit(c, OpGetGlobal, <<sym.index>>)
      [] sym.scope = LocalScope -> emit(c, OpGetLocal, <<sym.index>>)
      [] sym.scope = BuiltinScope -> emit(c, OpGetBuiltin, <<sym.index>>)
      [] sym.scope = FreeScope -> emit(c, OpGetFree, <<sym.index>>)
      [] sym.scope = FunctionScope -> emit(c, OpCurrentClosure, <<>>)
      [] OTHER -> c

RECURSIVE loadSymbols(_, _)
loadSymbols(c, syms) ==
    IF syms = <<>> THEN c ELSE loadSymbols(loadSymbol(c, Head(syms)), Tail(syms))

\* the symbol-table calls of the compiler, on this.symbolTable
cDefine(c, n) == [c EXCEPT !.tables = define(c.tables, Len(c.tables), n).tables]
cDefineFunctionName(c, n) == [c EXCEPT !.tables = defineFunctionName(c.tables, Len(c.tables), n).tables]
RECURSIVE cDefineAll(_, _)
cDefineAll(c, names) ==
    IF names = <<>> THEN c ELSE cDefineAll(cDefine(c, Head(names)), Tail(names))

InfixOpcode(operator) ==
    CASE operator = "+" -> OpAdd
      [] operator = "-" -> OpSub
      [] operator = "*" -> OpMul
      [] operator = "/" -> OpDiv
      [] operator = ">" -> OpGreaterThan
      [] operator = "==" -> OpEqual
      [] operator = "!=" -> OpNotEqual
      [] OTHER -> 0 - 1

RECURSIVE compile(_, _)
RECURSIVE compileAll(_, _)
RECURSIVE compilePairs(_, _)

compileAll(c, nodes) ==
    IF nodes = <<>> THEN c
    ELSE LET c1 == compile(c, Head(nodes))
         IN  IF c1.err # "" THEN c1 ELSE compileAll(c1, Tail(nodes))

compilePairs(c, pairs) ==
    IF pairs = <<>> THEN c
    ELSE compilePairs(compile(compile(c, Head(pairs)[1]), Head(pairs)[2]), Tail(pairs))

\* ghost: a let statement of the function literal being compiled is met
NoteLet(c, name) ==
    IF c.fns = <<>> THEN c ELSE [c EXCEPT !.fns[Len(c.fns)].lets = Append(@, name)]

\* ghost: an if-expression was compiled in the current scope, with its
\* OpJumpNotTruthy emitted at jumpNotTruthyAt and its OpJump at jumpAt; endAt is
\* the offset the next instruction of the scope will get
NoteIf(c, jumpNotTruthyAt, jumpAt, hasAlternative) ==
    [c EXCEPT !.ifLog = Append(@, [scopeIndex |-> c.scopeIndex,
                                   jumpNotTruthyAt |-> jumpNotTruthyAt,
                                   jumpAt |-> jumpAt,
                                   endAt |-> Len(currentInstructions(c)),
                                   hasAlternative |-> hasAlternative])]

\* ghost: an identifier was compiled, and the instruction emitted last is its load
NoteRef(c, name, before) ==
    IF c.err # "" THEN c
    ELSE [c EXCEPT !.refLog = Append(@,
            [name |-> name,
             op |-> c.scopes[c.scopeIndex + 1].lastInstruction.opcode,
             operands |-> readOperands(c.scopes[c.scopeIndex + 1].lastInstruction.opcode,
                                       currentInstructions(c),
                                       c.scopes[c.scopeIndex + 1].lastInstruction.position + 1).operands,
             fn |-> IF before.fns = <<>> THEN "" ELSE before.fns[Len(before.fns)].name,
             depth |-> Len(before.fns),
             shadowed |-> IF before.fns = <<>> THEN FALSE
                          ELSE LET f == before.fns[Len(before.fns)]
                               IN  \/ \E i \in 1..Len(f.parameters) : f.parameters[i] = name
                                   \/ \E i \in 1..Len(f.lets) : f.lets[i] = name])]

compileLetStatement(c, node) ==
    LET symbol == define(c.tables, Len(c.tables), node.name).sym
        c1 == compile(NoteLet(cDefine(c, node.name), node.name), node.value)
    IN  IF symbol.scope = GlobalScope
        THEN emit(c1, OpSetGlobal, <<symbol.index>>)
        ELSE emit(c1, OpSetLocal, <<symbol.index>>)

compileInfixExpression(c, node) ==
    IF node.operator = "<"
    THEN emit(compile(compile(c, node.right), node.left), OpGreaterThan, <<>>)
    ELSE LET c1 == compile(compile(c, node.left), node.right)
         IN  IF c1.err # "" THEN c1
             ELSE IF InfixOpcode(node.operator) < 0
             THEN CompileError(c1, "unknown operator: " \o node.operator)
             ELSE emit(c1, InfixOpcode(node.operator), <<>>)

compilePrefixExpression(c, node) ==
    LET c1 == compile(c, node.right)
    IN  IF c1.err # "" THEN c1
        ELSE IF node.operator = "!" THEN emit(c1, OpBang, <<>>)
        ELSE IF node.operator = "-" THEN emit(c1, OpMinus, <<>>)
        ELSE CompileError(c1, "unknown operator " \o node.operator)

compileIfExpression(c, node) ==
    LET c1 == compile(c, node.condition)
        jumpNotTruthyPosition == Len(currentInstructions(c1))
        c2 == emit(c1, OpJumpNotTruthy, <<9999>>)
        c3 == compile(c2, node.consequence)
        c4 == IF c3.err = "" /\ isLastOp(c3, OpPop) THEN removePop(c3) ELSE c3
        jumpPosition == Len(currentInstructions(c4))
        c5 == emit(c4, OpJump, <<9999>>)
        afterConsequencePosition == Len(currentInstructions(c5))
        c6 == changeOperand(c5, jumpNotTruthyPosition, afterConsequencePosition)
        c7 == IF node.alternative # NoNode THEN compile(c6, node.alternative) ELSE c6
        c8 == IF node.alternative # NoNode
              THEN (IF c7.err = "" /\ isLastOp(c7, OpPop) THEN removePop(c7) ELSE c7)
              ELSE emit(c7, OpNull, <<>>)
        afterAlternativePosition == Len(currentInstructions(c8))
    IN  IF c1.err # "" THEN c1
        ELSE IF c3.err # "" THEN c3
        ELSE IF c7.err # "" THEN c7
        ELSE NoteIf(changeOperand(c8, jumpPosition, afterAlternativePosition),
                    Len(currentInstructions(c1)), Len(currentInstructions(c4)),
                    node.alternative # NoNode)

compileFunctionLiteral_noReturnNull(c, node) ==
    LET c1 == [enterScope(c) EXCEPT !.fns = Append(@, [name |-> node.name,
                                                       parameters |-> node.parameters, lets |-> <<>>])]
        c2 == IF node.name # "" THEN cDefineFunctionName(c1, node.name) ELSE c1
        c3 == cDefineAll(c2, node.parameters)
        c4 == compile(c3, node.body)
        c6 == IF c4.err = "" /\ isLastOp(c4, OpPop) THEN replacePopWithReturn(c4) ELSE c4
        freeSymbols == c6.tables[Len(c6.tables)].freeSymbols
        numLocals == c6.tables[Len(c6.tables)].numDefinitions
        instructions == currentInstructions(c6)
        c7 == [leaveScope(c6) EXCEPT !.fns = SubSeq(@, 1, Len(@) - 1)]
        c8 == loadSymbols(c7, freeSymbols)
        compiledFunction == CompiledFunctionObj(c8.nextId, instructions, numLocals, Len(node.parameters))
        funcIndex == Len(c8.constants)
        c9 == [addConstant(c8, compiledFunction) EXCEPT !.nextId = @ - 1]
        c10 == emit(c9, OpClosure, <<funcIndex, Len(freeSymbols)>>)
        inner(e) == e.scopeIndex > c.scopeIndex
        outer(e) == e.scopeIndex <= c.scopeIndex
    IN  IF c4.err # "" THEN c4
        ELSE [c10 EXCEPT !.ifLog = SelectSeq(@, outer),
                         !.fnLog = Append(@, [funcIndex |-> funcIndex, node |-> node,
                                             ifs |-> SelectSeq(c6.ifLog, inner),
                                             numLocals |-> numLocals, freeSymbols |-> freeSymbols,
                                             closureAt |-> Len(currentInstructions(c9)),
                                             scopeIndex |-> c9.scopeIndex,
                                             outerTables |-> c7.tables,
                                             lets |-> c6.fns[Len(c6.fns)].lets,
                                             store |-> c6.tables[Len(c6.tables)].store,
                                             enteredTables |-> c.tables,
                                             enteredInstructions |-> currentInstructions(c),
                                             outerInstructions |-> currentInstructions(c10)])]

compileFunctionLiteral(c, node) ==
    LET c1 == [enterScope(c) EXCEPT !.fns = Append(@, [name |-> node.name,
                                                       parameters |-> node.parameters, lets |-> <<>>])]
        c2 == IF node.name # "" THEN cDefineFunctionName(c1, node.name) ELSE c1
        c3 == cDefineAll(c2, node.parameters)
        c4 == compile(c3, node.body)
        c5 == IF c4.err = "" /\ isLastOp(c4, OpPop) THEN replacePopWithReturn(c4) ELSE c4
        c6 == IF c5.err = "" /\ ~isLastOp(c5, OpReturnValue) THEN emit(c5, OpReturnNull, <<>>) ELSE c5
        freeSymbols == c6.tables[Len(c6.tables)].freeSymbols
        numLocals == c6.tables[Len(c6.tables)].numDefinitions
        instructions == currentInstructions(c6)
        c7 == [leaveScope(c6) EXCEPT !.fns = SubSeq(@, 1, Len(@) - 1)]
        c8 == loadSymbols(c7, freeSymbols)
        compiledFunction == CompiledFunctionObj(c8.nextId, instructions, numLocals, Len(node.parameters))
        funcIndex == Len(c8.constants)
        c9 == [addConstant(c8, compiledFunction) EXCEPT !.nextId = @ - 1]
        c10 == emit(c9, OpClosure, <<funcIndex, Len(freeSymbols)>>)
        inner(e) == e.scopeIndex > c.scopeIndex
        outer(e) == e.scopeIndex <= c.scopeIndex
    IN  IF c4.err # "" THEN c4
        ELSE [c10 EXCEPT !.ifLog = SelectSeq(@, outer),
                         !.fnLog = Append(@, [funcIndex |-> funcIndex, node |-> node,
                                             ifs |-> SelectSeq(c6.ifLog, inner),
                                             numLocals |-> numLocals, freeSymbols |-> freeSymbols,
                                             closureAt |-> Len(currentInstructions(c9)),
                                             scopeIndex |-> c9.scopeIndex,
                                             outerTables |-> c7.tables,
                                             lets |-> c6.fns[Len(c6.fns)].lets,
                                             store |-> c6.tables[Len(c6.tables)].store,
                                             enteredTables |-> c.tables,
                                             enteredInstructions |-> currentInstructions(c),
                                             outerInstructions |-> currentInstructions(c10)])]

compileIdentifier(c, node) ==
    LET r == resolve(c.tables, Len(c.tables), node.value)
    IN  IF r.sym = NoSymbol
        THEN CompileError([c EXCEPT !.tables = r.tables], "undefined variable " \o node.value)
        ELSE NoteRef(loadSymbol([c EXCEPT !.tables = r.tables], r.sym), node.value, c)

compileConstant(c, obj) ==
    emit([addConstant(c, obj) EXCEPT !.nextId = @ - 1], OpConstant, <<Len(c.constants)>>)

compile(c, node) ==
    CASE c.err # "" -> c
      [] node.kind = "Program" -> compileAll(c, node.statements)
      [] node.kind = "ExpressionStatement" -> emit(compile(c, node.value), OpPop, <<>>)
      [] node.kind = "BlockStatement" -> compileAll(c, node.statements)
      [] node.kind = "LetStatement" -> compileLetStatement(c, node)
      [] node.kind = "ReturnStatement" -> emit(compile(c, node.value), OpReturnValue, <<>>)
      [] node.kind = "InfixExpression" -> compileInfixExpression(c, node)
      [] node.kind = "PrefixExpression" -> compilePrefixExpression(c, node)
      [] node.kind = "IfExpression" -> compileIfExpression(c, node)
      [] node.kind = "IndexExpression" ->
           emit(compile(compile(c, node.left), node.index), OpIndex, <<>>)
      [] node.kind = "CallExpression" ->
           emit(compileAll(compile(c, node.func), node.args), OpCall, <<Len(node.args)>>)
      [] node.kind = "Identifier" -> compileIdentifier(c, node)
      [] node.kind = "IntegerLiteral" -> compileConstant(c, IntegerObj(c.nextId, node.value))
      [] node.kind = "BooleanLiteral" ->
           IF node.value THEN emit(c, OpTrue, <<>>) ELSE emit(c, OpFalse, <<>>)
      [] node.kind = "StringLiteral" -> compileConstant(c, StringObj(c.nextId, node.value))
      [] node.kind = "ArrayLiteral" ->
           emit(compileAll(c, node.elements), OpArray, <<Len(node.elements)>>)
      [] node.kind = "HashLiteral" ->
           emit(compilePairs(c, SortPairs(node.pairs)), OpHash, <<Len(node.pairs) * 2>>)
      [] node.kind = "FunctionLiteral" -> compileFunctionLiteral(c, node)
      [] OTHER -> c

\* compiler.bytecode()
bytecode(c) == [instructions |-> currentInstructions(c), constants |-> c.constants]

-----------------------------------------------------------------------------
(* vm.ts.  A VM is the record v.  stack keeps every slot written so far, the   *)
(* slots at and above sp included (the array is never cleared); under[k] is    *)
(* the array property -k.  frames is the frame array up to framesIndex.        *)
(* status is "running" inside run(), "done" after it returned, "error" after   *)
(* it threw an ExecutionError (err is its message) and "crash" after it threw  *)
(* a TypeError on an undefined value.                                          *)

STACK_SIZE == 2048
GLOBALS_SIZE == 65536
FRAMES_SIZE == 1024

Frame(cl, basePointer) == [cl |-> cl, ip |-> 0 - 1, basePointer |-> basePointer]

\* array[k] = val on an array that reads undefined wherever nothing was written
SetAt(arr, k, val) ==
    IF k < Len(arr) THEN [arr EXCEPT ![k + 1] = val]
    ELSE arr \o [j \in 1..(k - Len(arr)) |-> Undefined] \o <<val>>

GetAt(arr, k) == IF k >= 0 /\ k < Len(arr) THEN arr[k + 1] ELSE Undefined

\* new VM(bytecode, globals); firstId: the first unused object identity
NewVM(bc, globals, firstId) ==
    [status |-> "running", err |-> "", constants |-> bc.constants,
     stack |-> <<>>, under |-> <<>>, sp |-> 0, globals |-> globals,
     frames |-> <<Frame(ClosureObj(firstId - 1,
                                   CompiledFunctionObj(firstId, bc.instructions, 0, 0), <<>>), 0)>>,
     framesIndex |-> 1, nextId |-> firstId - 2, out |-> <<>>]

ExecutionError(v, msg) == [v EXCEPT !.status = "error", !.err = msg]
TypeError(v) == [v EXCEPT !.status = "crash", !.err = "TypeError"]

StackGet(v, i) == IF i >= 0 THEN GetAt(v.stack, i) ELSE GetAt(v.under, (0 - i) - 1)
StackSet(v, i, obj) ==
    IF i >= 0 THEN [v EXCEPT !.stack = SetAt(@, i, obj)]
    ELSE [v EXCEPT !.under = SetAt(@, (0 - i) - 1, obj)]

currentFrame(v) == v.frames[v.framesIndex]

pushFrame(v, f) == [v EXCEPT !.frames = Append(@, f), !.framesIndex = @ + 1]

\* popFrame returns currentFrame(v), the frame it drops
popFrame(v) == [v EXCEPT !.frames = SubSeq(@, 1, Len(@) - 1), !.framesIndex = @ - 1]

push(v, obj) ==
    IF v.status # "running" THEN v
    ELSE IF v.sp >= STACK_SIZE THEN ExecutionError(v, "stack overflow")
    ELSE [StackSet(v, v.sp, obj) EXCEPT !.sp = @ + 1]

\* pop returns StackTop(v)
StackTop(v) == StackGet(v, v.sp - 1)
pop(v) == [v EXCEPT !.sp = @ - 1]

isTruthy(obj) ==
    IF obj.type = "BOOLEAN" THEN obj.value
    ELSE IF obj.id = NULL_ID THEN FALSE
    ELSE TRUE

\* this.currentFrame().ip += n and = n; a handler that has thrown does not get to them
AddIp(v, n) == IF v.status # "running" THEN v ELSE [v EXCEPT !.frames[v.framesIndex].ip = @ + n]
SetIp(v, n) == IF v.status # "running" THEN v ELSE [v EXCEPT !.frames[v.framesIndex].ip = n]

\* the instruction the loop of run() executes next
NextIp(v) == currentFrame(v).ip + 1
NextInstructions(v) == currentFrame(v).cl.func.instructions
LoopCondition(v) == currentFrame(v).ip < Len(NextInstructions(v)) - 1
NextOp(v) == NextInstructions(v)[NextIp(v) + 1]

\* obj.type() in an error message: a TypeError when obj is undefined
WithType(v, obj, msg) == IF obj = Undefined THEN TypeError(v) ELSE ExecutionError(v, msg)

executeBangOperator(v) ==
    LET operand == StackTop(v)
    IN  IF operand.id \in {FALSE_ID, NULL_ID}
        THEN push(pop(v), BOOLEAN_TRUE) ELSE push(pop(v), BOOLEAN_FALSE)

executeMinusOperator(v) ==
    LET operand == StackTop(v)
    IN  IF operand.type = "INTEGER" THEN push(pop(v), INTEGER(0 - operand.value))
        ELSE WithType(pop(v), operand, "unsupported type for negation: " \o operand.type)

executeIntegerComparison(v, op, left, right) ==
    CASE op = OpEqual -> push(v, IF left.value = right.value THEN BOOLEAN_TRUE ELSE BOOLEAN_FALSE)
      [] op = OpNotEqual -> push(v, IF left.value # right.value THEN BOOLEAN_TRUE ELSE BOOLEAN_FALSE)
      [] op = OpGreaterThan -> push(v, IF left.value > right.value THEN BOOLEAN_TRUE ELSE BOOLEAN_FALSE)
      [] OTHER -> ExecutionError(v, "unknown operator: " \o ToString(op))

\* executeComparison deciding by identity for Integer operands as well
executeComparison_byIdentity(v, op) ==
    LET right == StackTop(v)
        left == StackTop(pop(v))
        v2 == pop(pop(v))
    IN  CASE op = OpEqual -> push(v2, IF left.id = right.id THEN BOOLEAN_TRUE ELSE BOOLEAN_FALSE)
          [] op = OpNotEqual -> push(v2, IF left.id # right.id THEN BOOLEAN_TRUE ELSE BOOLEAN_FALSE)
          [] OTHER ->
               IF left.type = "INTEGER" /\ right.type = "INTEGER"
               THEN executeIntegerComparison(v2, op, left, right)
               ELSE IF left = Undefined \/ right = Undefined THEN TypeError(v2)
               ELSE ExecutionError(v2, "unknown operator: " \o ToString(op)
                                       \o " (" \o left.type \o " " \o right.type \o ")")

executeComparison(v, op) ==
    LET right == StackTop(v)
        left == StackTop(pop(v))
        v2 == pop(pop(v))
    IN  IF left.type = "INTEGER" /\ right.type = "INTEGER"
        THEN executeIntegerComparison(v2, op, left, right)
        ELSE CASE op = OpEqual -> push(v2, IF left.id = right.id THEN BOOLEAN_TRUE ELSE BOOLEAN_FALSE)
               [] op = OpNotEqual -> push(v2, IF left.id # right.id THEN BOOLEAN_TRUE ELSE BOOLEAN_FALSE)
               [] OTHER ->
                    IF left = Undefined \/ right = Undefined THEN TypeError(v2)
                    ELSE ExecutionError(v2, "unknown operator: " \o ToString(op)
                                            \o " (" \o left.type \o " " \o right.type \o ")")

\* Math.trunc(l / r) for r # 0
TruncDiv(l, r) ==
    IF (l >= 0) = (r > 0) THEN Abs(l) \div Abs(r) ELSE 0 - (Abs(l) \div Abs(r))

\* a division by zero leaves the integers (Infinity, NaN): the run is followed no further
NonFinite(v) == [v EXCEPT !.status = "nonfinite"]

executeBinaryIntegerOperation(v, op, left, right) ==
    CASE op = OpAdd -> push(v, INTEGER(left.value + right.value))
      [] op = OpSub -> push(v, INTEGER(left.value - right.value))
      [] op = OpMul -> push(v, INTEGER(left.value * right.value))
      [] op = OpDiv -> IF right.value = 0 THEN NonFinite(v)
                       ELSE push(v, INTEGER(TruncDiv(left.value, right.value)))
      [] OTHER -> ExecutionError(v, "unknown integer operator: " \o ToString(op))

executeBinaryStringOperation(v, op, left, right) ==
    IF op = OpAdd
    THEN push([v EXCEPT !.nextId = @ - 1], StringObj(v.nextId, left.value \o right.value))
    ELSE ExecutionError(v, "unknown string operator: " \o ToString(op))

executeBinaryOperation(v, op) ==
    LET right == StackTop(v)
        left == StackTop(pop(v))
        v2 == pop(pop(v))
    IN  IF left.type = "INTEGER" /\ right.type = "INTEGER"
        THEN executeBinaryIntegerOperation(v2, op, left, right)
        ELSE IF left.type = "STRING" /\ right.type = "STRING"
        THEN executeBinaryStringOperation(v2, op, left, right)
        ELSE IF left = Undefined \/ right = Undefined THEN TypeError(v2)
        ELSE ExecutionError(v2, "unsupported types for binary operation: "
                                \o left.type \o " " \o right.type)

\* 'hash' in obj
Hashable(obj) == obj.type \in {"INTEGER", "BOOLEAN", "STRING"}

\* the properties every plain object inherits: HASHES[name] finds them before
\* any string was hashed
ObjectPrototypeNames ==
    {"constructor", "toString", "toLocaleString", "valueOf", "hasOwnProperty",
     "isPrototypeOf", "propertyIsEnumerable", "__proto__", "__defineGetter__",
     "__defineSetter__", "__lookupGetter__", "__lookupSetter__"}

\* a hash() that makes a new HashKey for every object
HashKey_perObject(obj) == "OBJECT:" \o ToString(obj.id)

\* obj.hash(): the identity of the HashKey object returned.  IntegerObj.HASHES
\* and StringObj.HASHES keep one HashKey per property name, the payload, and
\* BooleanObj.HASHES has two; a string that names an inherited property gets
\* that property in place of a HashKey
HashKey(obj) ==
    CASE obj.type = "INTEGER" -> "INTEGER:" \o ToString(obj.value)
      [] obj.type = "BOOLEAN" -> IF obj.value THEN "BOOLEAN:1" ELSE "BOOLEAN:0"
      [] obj.type = "STRING" -> IF obj.value \in ObjectPrototypeNames
                                THEN "Object.prototype." \o obj.value
                                ELSE "STRING:" \o obj.value

\* Map.get
MapGet(pairs, hk) ==
    LET at == {i \in 1..Len(pairs) : pairs[i].hash = hk}
    IN  IF at = {} THEN Undefined ELSE pairs[CHOOSE i \in at : TRUE]

\* Map.set: a key already in the map keeps its place
MapSet(pairs, hk, pair) ==
    LET at == {i \in 1..Len(pairs) : pairs[i].hash = hk}
        entry == [hash |-> hk, key |-> pair.key, value |-> pair.value]
    IN  IF at = {} THEN Append(pairs, entry)
        ELSE [pairs EXCEPT ![CHOOSE i \in at : TRUE] = entry]

executeArrayIndexExpression(v, array, index) ==
    LET idx == index.value
        max == Len(array.elements) - 1
    IN  IF idx < 0 \/ idx > max THEN push(v, NULL) ELSE push(v, array.elements[idx + 1])

executeHashIndexExpression(v, hash, index) ==
    IF index = Undefined THEN TypeError(v)
    ELSE IF ~Hashable(index) THEN ExecutionError(v, "unusable as hash key: " \o index.type)
    ELSE LET pair == MapGet(hash.pairs, HashKey(index))
         IN  IF pair = Undefined THEN push(v, NULL) ELSE push(v, pair.value)

executeIndexExpression(v, left, index) ==
    IF left.type = "ARRAY" /\ index.type = "INTEGER" THEN executeArrayIndexExpression(v, left, index)
    ELSE IF left.type = "HASH" THEN executeHashIndexExpression(v, left, index)
    ELSE IF left = Undefined \/ index = Undefined THEN TypeError(v)
    ELSE ExecutionError(v, "index operator not supported: " \o left.type \o "[" \o index.type \o "]")

\* buildArray returns the new ArrayObj, whose identity is id
buildArray(v, startIndex, endIndex, id) ==
    ArrayObj(id, [i \in 1..(endIndex - startIndex) |-> StackGet(v, startIndex + i - 1)])

\* the pairs buildHash has put in its map after the stack slots startIndex..endIndex-1,
\* or the slot of the first key that cannot be hashed
RECURSIVE buildHashPairs(_, _, _, _)
buildHashPairs(v, i, endIndex, pairs) ==
    IF i >= endIndex THEN [pairs |-> pairs, bad |-> 0 - 1]
    ELSE IF StackGet(v, i) = Undefined \/ ~Hashable(StackGet(v, i)) THEN [pairs |-> pairs, bad |-> i]
    ELSE buildHashPairs(v, i + 2, endIndex,
                        MapSet(pairs, HashKey(StackGet(v, i)),
                               [key |-> StackGet(v, i), value |-> StackGet(v, i + 1)]))

\* obj.inspect()
RECURSIVE inspect(_)
RECURSIVE inspectAll(_, _)
inspectAll(strs, sep) ==
    IF strs = <<>> THEN ""
    ELSE IF Len(strs) = 1 THEN strs[1]
    ELSE strs[1] \o sep \o inspectAll(Tail(strs), sep)
inspect(obj) ==
    CASE obj.type = "INTEGER" -> ToString(obj.value)
      [] obj.type = "BOOLEAN" -> IF obj.value THEN "true" ELSE "false"
      [] obj.type = "STRING" -> "\"" \o obj.value \o "\""
      [] obj.type = "NULL" -> "null"
      [] obj.type = "EMPTY" -> ""
      [] obj.type = "ERROR" -> "ERROR: " \o obj.message
      [] obj.type = "FUNCTION" -> "[Function]"
      [] obj.type = "BUILTIN" -> "[Builtin]"
      [] obj.type = "ARRAY" ->
            "[" \o inspectAll([i \in 1..Len(obj.elements) |-> inspect(obj.elements[i])], ", ") \o "]"
      [] obj.type = "HASH" ->
            "{" \o inspectAll([i \in 1..Len(obj.pairs) |->
                                 inspect(obj.pairs[i].key) \o ": " \o inspect(obj.pairs[i].value)], ", ") \o "}"
      [] OTHER -> "[" \o obj.type \o "]"

\* obj.display()
display(obj) == IF obj.type = "STRING" THEN obj.value ELSE inspect(obj)

\* builtins.ts: each builtin returns its result; id is the identity of the object
\* it makes with `new`, if it makes one
len(args) ==
    IF Len(args) # 1 THEN ErrorObj("invalid number of arguments for 'len'")
    ELSE IF args[1].type = "STRING" THEN INTEGER(Len(args[1].value))
    ELSE IF args[1].type = "ARRAY" THEN INTEGER(Len(args[1].elements))
    ELSE ErrorObj("argument " \o args[1].type \o " to 'len' not supported")

first(args) ==
    IF Len(args) # 1 THEN ErrorObj("invalid number of arguments for 'first'")
    ELSE IF args[1].type = "ARRAY"
    THEN (IF Len(args[1].elements) > 0 THEN args[1].elements[1] ELSE NULL)
    ELSE ErrorObj("argument " \o args[1].type \o " to 'first' not supported")

lastBuiltin(args) ==
    IF Len(args) # 1 THEN ErrorObj("invalid number of arguments for 'last'")
    ELSE IF args[1].type = "ARRAY"
    THEN (IF Len(args[1].elements) > 0 THEN args[1].elements[Len(args[1].elements)] ELSE NULL)
    ELSE ErrorObj("argument " \o args[1].type \o " to 'last' not supported")

rest(args, id) ==
    IF Len(args) # 1 THEN ErrorObj("invalid number of arguments for 'rest'")
    ELSE IF args[1].type = "ARRAY"
    THEN (IF Len(args[1].elements) < 1 THEN NULL ELSE ArrayObj(id, Tail(args[1].elements)))
    ELSE ErrorObj("argument " \o args[1].type \o " to 'rest' not supported")

pushBuiltin_inPlace(args, id) ==
    IF Len(args) # 2 THEN ErrorObj("invalid number of arguments for 'push'")
    ELSE IF args[1].type = "ARRAY" THEN ArrayObj(args[1].id, Append(args[1].elements, args[2]))
    ELSE ErrorObj("argument " \o args[1].type \o " to 'push' not supported")

pushBuiltin(args, id) ==
    IF Len(args) # 2 THEN ErrorObj("invalid number of arguments for 'push'")
    ELSE IF args[1].type = "ARRAY" THEN ArrayObj(id, Append(args[1].elements, args[2]))
    ELSE ErrorObj("argument " \o args[1].type \o " to 'push' not supported")

\* puts returns EMPTY; what it writes with console.log:
putsLines(args) == [i \in 1..Len(args) |-> display(args[i])]

\* builtin.func(args) for the builtin at position index of the table
builtinFunc(index, args, id) ==
    CASE BuiltinNames[index + 1] = "len" -> len(args)
      [] BuiltinNames[index + 1] = "puts" -> EMPTY
      [] BuiltinNames[index + 1] = "first" -> first(args)
      [] BuiltinNames[index + 1] = "last" -> lastBuiltin(args)
      [] BuiltinNames[index + 1] = "rest" -> rest(args, id)
      [] BuiltinNames[index + 1] = "push" -> pushBuiltin(args, id)

\* the builtin calls type() or display() on an undefined argument
builtinThrows(index, args) ==
    CASE BuiltinNames[index + 1] = "puts" -> \E i \in 1..Len(args) : args[i] = Undefined
      [] BuiltinNames[index + 1] = "push" -> Len(args) = 2 /\ args[1] = Undefined
      [] OTHER -> Len(args) = 1 /\ args[1] = Undefined

callClosure_pushesFirst(v, closure, numArgs) ==
    LET frame == Frame(closure, v.sp - numArgs)
        v2 == [pushFrame(v, frame) EXCEPT !.sp = frame.basePointer + closure.func.numLocals]
    IN  IF numArgs # closure.func.numParameters
        THEN ExecutionError(v2, "wrong number of arguments: expected "
                                \o ToString(closure.func.numParameters) \o ", got " \o ToString(numArgs))
        ELSE v2

callClosure(v, closure, numArgs) ==
    IF numArgs # closure.func.numParameters
    THEN ExecutionError(v, "wrong number of arguments: expected "
                           \o ToString(closure.func.numParameters) \o ", got " \o ToString(numArgs))
    ELSE LET frame == Frame(closure, v.sp - numArgs)
         IN  [pushFrame(v, frame) EXCEPT !.sp = frame.basePointer + closure.func.numLocals]

callBuiltin(v, builtin, numArgs) ==
    LET args == [i \in 1..numArgs |-> StackGet(v, v.sp - numArgs + i - 1)]
        result == builtinFunc(builtin.index, args, v.nextId)
        v2 == [v EXCEPT !.sp = v.sp - numArgs - 1,
                        !.nextId = IF result.id = v.nextId THEN @ - 1 ELSE @,
                        !.out = IF BuiltinNames[builtin.index + 1] = "puts" THEN @ \o putsLines(args) ELSE @]
    IN  IF builtinThrows(builtin.index, args) THEN TypeError(v)
        ELSE IF result.type = "ERROR" THEN ExecutionError(v2, result.message)
        ELSE push(v2, result)

executeCall(v, numArgs) ==
    LET callee == StackGet(v, v.sp - 1 - numArgs)
    IN  IF callee.type = "CLOSURE" THEN callClosure(v, callee, numArgs)
        ELSE IF callee.type = "BUILTIN" THEN callBuiltin(v, callee, numArgs)
        ELSE WithType(v, callee, "cannot call object of type " \o callee.type)

pushClosure_offByOne(v, fnIndex, numFree) ==
    LET fnConstant == GetAt(v.constants, fnIndex)
        free == [i \in 1..numFree |-> StackGet(v, v.sp - numFree + i)]
    IN  IF fnConstant.type # "COMPILED_FUNCTION"
        THEN WithType(v, fnConstant, "cant create closure for type: " \o fnConstant.type)
        ELSE push([v EXCEPT !.nextId = @ - 1], ClosureObj(v.nextId, fnConstant, free))

pushClosure(v, fnIndex, numFree) ==
    LET fnConstant == GetAt(v.constants, fnIndex)
        free == [i \in 1..numFree |-> StackGet(v, v.sp - numFree + i - 1)]
    IN  IF fnConstant.type # "COMPILED_FUNCTION"
        THEN WithType(v, fnConstant, "cant create closure for type: " \o fnConstant.type)
        ELSE push([v EXCEPT !.nextId = @ - 1], ClosureObj(v.nextId, fnConstant, free))

\* The cases of the switch in run().  v is the VM after this.currentFrame().ip++,
\* so that ip is the position of the opcode.
Ip(v) == currentFrame(v).ip
Operand16(v) == readUint16BE(NextInstructions(v), Ip(v) + 1)
Operand8(v) == readUInt8(NextInstructions(v), Ip(v) + 1)

caseOpConstant(v) == AddIp(push(v, GetAt(v.constants, Operand16(v))), 2)
caseOpTrue(v) == push(v, BOOLEAN_TRUE)
caseOpFalse(v) == push(v, BOOLEAN_FALSE)
caseOpNull(v) == push(v, NULL)
caseOpPop(v) == pop(v)
caseOpJump(v) == SetIp(v, Operand16(v) - 1)
caseOpJumpNotTruthy(v) ==
    LET jumpPos == Operand16(v)
        v2 == AddIp(v, 2)
    IN  IF ~isTruthy(StackTop(v2)) THEN SetIp(pop(v2), jumpPos - 1) ELSE pop(v2)
caseOpSetGlobal(v) ==
    LET globalIndex == Operand16(v)
        v2 == AddIp(v, 2)
    IN  [pop(v2) EXCEPT !.globals = SetAt(@, globalIndex, StackTop(v2))]
caseOpGetGlobal(v) ==
    LET globalIndex == Operand16(v)
    IN  push(AddIp(v, 2), GetAt(v.globals, globalIndex))
caseOpSetLocal(v) ==
    LET localIndex == Operand8(v)
        v2 == AddIp(v, 1)
        frame == currentFrame(v2)
    IN  StackSet(pop(v2), frame.basePointer + localIndex, StackTop(v2))
caseOpGetLocal_fromCallee(v) ==
    LET localIndex == Operand8(v)
        v2 == AddIp(v, 1)
        frame == currentFrame(v2)
    IN  push(v2, StackGet(v2, frame.basePointer + localIndex - 1))
caseOpGetLocal(v) ==
    LET localIndex == Operand8(v)
        v2 == AddIp(v, 1)
        frame == currentFrame(v2)
    IN  push(v2, StackGet(v2, frame.basePointer + localIndex))
caseOpArray(v) ==
    LET numElements == Operand16(v)
        v2 == AddIp(v, 2)
        array == buildArray(v2, v2.sp - numElements, v2.sp, v2.nextId)
    IN  push([v2 EXCEPT !.sp = @ - numElements, !.nextId = @ - 1], array)
caseOpHash(v) ==
    LET numElements == Operand16(v)
        v2 == AddIp(v, 2)
        built == buildHashPairs(v2, v2.sp - numElements, v2.sp, <<>>)
    IN  IF built.bad >= 0
        THEN WithType(v2, StackGet(v2, built.bad), "unusable as hash key: " \o StackGet(v2, built.bad).type)
        ELSE push([v2 EXCEPT !.sp = @ - numElements, !.nextId = @ - 1], HashObj(v2.nextId, built.pairs))
caseOpIndex(v) ==
    LET index == StackTop(v)
        left == StackTop(pop(v))
    IN  executeIndexExpression(pop(pop(v)), left, index)
caseOpReturnNull(v) ==
    LET frame == currentFrame(v)
    IN  push([popFrame(v) EXCEPT !.sp = frame.basePointer - 1], NULL)
caseOpReturnValue_keepsCallee(v) ==
    LET returnValue == StackTop(v)
        v2 == pop(v)
        frame == currentFrame(v2)
    IN  push([popFrame(v2) EXCEPT !.sp = frame.basePointer], returnValue)
caseOpReturnValue(v) ==
    LET returnValue == StackTop(v)
        v2 == pop(v)
        frame == currentFrame(v2)
    IN  push([popFrame(v2) EXCEPT !.sp = frame.basePointer - 1], returnValue)
caseOpCall(v) ==
    LET numArgs == Operand8(v)
    IN  executeCall(AddIp(v, 1), numArgs)
caseOpGetBuiltin(v) ==
    LET builtinIndex == Operand8(v)
    IN  push(AddIp(v, 1), BuiltinObj(builtinIndex))
caseOpClosure(v) ==
    LET fnIndex == Operand16(v)
        numFree == readUInt8(NextInstructions(v), Ip(v) + 3)
    IN  pushClosure(AddIp(v, 3), fnIndex, numFree)
caseOpGetFree(v) ==
    LET freeIndex == Operand8(v)
        v2 == AddIp(v, 1)
        currentClosure == currentFrame(v2).cl
    IN  push(v2, GetAt(currentClosure.free, freeIndex))
caseOpCurrentClosure(v) == push(v, currentFrame(v).cl)

\* the switch of run()
switch(op, v) ==
    CASE op = OpConstant -> caseOpConstant(v)
      [] op = OpTrue -> caseOpTrue(v)
      [] op = OpFalse -> caseOpFalse(v)
      [] op = OpNull -> caseOpNull(v)
      [] op = OpPop -> caseOpPop(v)
      [] op = OpMinus -> executeMinusOperator(v)
      [] op = OpBang -> executeBangOperator(v)
      [] op \in {OpAdd, OpSub, OpMul, OpDiv} -> executeBinaryOperation(v, op)
      [] op \in {OpEqual, OpNotEqual, OpGreaterThan} -> executeComparison(v, op)
      [] op = OpJumpNotTruthy -> caseOpJumpNotTruthy(v)
      [] op = OpJump -> caseOpJump(v)
      [] op = OpGetGlobal -> caseOpGetGlobal(v)
      [] op = OpSetGlobal -> caseOpSetGlobal(v)
      [] op = OpGetLocal -> caseOpGetLocal(v)
      [] op = OpSetLocal -> caseOpSetLocal(v)
      [] op = OpGetBuiltin -> caseOpGetBuiltin(v)
      [] op = OpArray -> caseOpArray(v)
      [] op = OpHash -> caseOpHash(v)
      [] op = OpIndex -> caseOpIndex(v)
      [] op = OpCall -> caseOpCall(v)
      [] op = OpReturnValue -> caseOpReturnValue(v)
      [] op = OpReturnNull -> caseOpReturnNull(v)
      [] op = OpClosure -> caseOpClosure(v)
      [] op = OpGetFree -> caseOpGetFree(v)
      [] op = OpCurrentClosure -> caseOpCurrentClosure(v)
      [] OTHER -> v

\* one turn of the loop of run(): its condition, ip++ and the switch
turn(v) ==
    IF v.status # "running" THEN v
    ELSE IF v.framesIndex < 1 THEN TypeError(v)
    ELSE IF ~LoopCondition(v) THEN [v EXCEPT !.status = "done"]
    ELSE switch(NextOp(v), AddIp(v, 1))

\* n turns of the loop, or as many as it takes
RECURSIVE turns(_, _)
turns(v, n) ==
    IF v.status # "running" THEN v
    ELSE IF n <= 1 THEN turn(v)
    ELSE turns(turns(v, n \div 2), n - (n \div 2))

\* run() as a whole: the loop, until it ends or throws
run(v) == turns(v, MaxTurns)

-----------------------------------------------------------------------------
(* evaluate.ts: the tree-walking evaluator.  An Environment is a place in the  *)
(* sequence envs (its store, and the place of its outer environment or 0); an  *)
(* evaluation state st has the environments, the identity of the next object   *)
(* made with new, the lines written by puts, and status: "running", "thrown"   *)
(* after a JavaScript exception, "nonfinite" after a division by zero.         *)

ReturnValueObj(value) == [type |-> "RETURN_VALUE", id |-> 0, returnValue |-> value]
\* new BreakObj()
BreakObj == [type |-> "BREAK", id |-> 0]
FunctionObj(id, parameters, body, env) ==
    [type |-> "FUNCTION", id |-> id, parameters |-> parameters, body |-> body, env |-> env]

NewEnvironment == [store |-> <<>>, outer |-> 0]
\* ghost of an evaluation: firstErr is the first ErrorObj that the evaluation
\* of a sub-expression returned to the expression around it, after the number
\* of calls of evaluate entered since
NoError == [type |-> "NONE", id |-> 0]
NewEvalState ==
    [envs |-> <<NewEnvironment>>, nextId |-> 0 - 1, out |-> <<>>, status |-> "running",
     firstErr |-> NoError, after |-> 0, assigns |-> <<>>, trail |-> <<>>, lets |-> <<>>]

Entered(st) == IF st.firstErr # NoError THEN [st EXCEPT !.after = @ + 1] ELSE st


\* a value and the state it was computed in; stop when the caller hands it back
\* at once: the run is over, or isError(val)
R(val, st) ==
    [val |-> val, st |-> st, stop |-> st.status # "running" \/ val.type = "ERROR"]

\* r, the result of a sub-expression, with the ghost kept
Yielded(r) ==
    IF r.stop /\ r.st.status = "running" /\ r.st.firstErr = NoError
    THEN R(r.val, [r.st EXCEPT !.firstErr = r.val])
    ELSE r

\* Environment.enclosedEnv(outer): the new environment is the last of envs
enclosedEnv(st, outer) == [st EXCEPT !.envs = Append(@, [store |-> <<>>, outer |-> outer])]

StoreGet(store, name) ==
    LET at == {i \in 1..Len(store) : store[i].name = name}
    IN  IF at = {} THEN Undefined ELSE store[CHOOSE i \in at : TRUE].value

\* env.get(name)
RECURSIVE EnvGet(_, _, _)
EnvGet(envs, env, name) ==
    LET obj == StoreGet(envs[env].store, name)
    IN  IF obj = Undefined /\ envs[env].outer # 0 THEN EnvGet(envs, envs[env].outer, name) ELSE obj

\* env.set(name, value)
EnvSet(st, env, name, value) ==
    LET store == st.envs[env].store
        at == {i \in 1..Len(store) : store[i].name = name}
        entry == [name |-> name, value |-> value]
    IN  [st EXCEPT !.envs[env].store = IF at = {} THEN Append(store, entry)
                                        ELSE [store EXCEPT ![CHOOSE i \in at : TRUE] = entry]]

\* env.reassign(name, value): found is FALSE when it returns undefined
RECURSIVE reassign(_, _, _, _)
reassign(st, env, name, value) ==
    IF StoreGet(st.envs[env].store, name) # Undefined
    THEN [st |-> EnvSet(st, env, name, value), found |-> TRUE]
    ELSE IF st.envs[env].outer # 0 THEN reassign(st, st.envs[env].outer, name, value)
    ELSE [st |-> st, found |-> FALSE]

\* isTruthy of evaluate.ts
isTruthyEval(obj) == obj.id # NULL_ID /\ obj.id # FALSE_ID

evaluateBangExpression(obj) == IF isTruthyEval(obj) THEN BOOLEAN_FALSE ELSE BOOLEAN_TRUE

evaluateMinusPrefixExpression(obj) ==
    IF obj.type # "INTEGER" THEN ErrorObj("unknown operator: -" \o obj.type)
    ELSE INTEGER(0 - obj.value)

evaluatePrefixExpression(operator, right) ==
    CASE operator = "!" -> evaluateBangExpression(right)
      [] operator = "-" -> evaluateMinusPrefixExpression(right)
      [] OTHER -> ErrorObj("unknown operator: " \o operator \o right.type)

NativeBool(b) == IF b THEN BOOLEAN_TRUE ELSE BOOLEAN_FALSE

UnknownOperator(operator, left, right) ==
    ErrorObj("unknown operator: " \o left.type \o " " \o operator \o " " \o right.type)

evaluateIntegerInfixExpression(operator, left, right, st) ==
    CASE operator = "==" -> R(NativeBool(left.id = right.id), st)
      [] operator = "!=" -> R(NativeBool(left.id # right.id), st)
      [] operator = "+" -> R(INTEGER(left.value + right.value), st)
      [] operator = "-" -> R(INTEGER(left.value - right.value), st)
      [] operator = "*" -> R(INTEGER(left.value * right.value), st)
      [] operator = "/" -> IF right.value = 0 THEN R(Undefined, [st EXCEPT !.status = "nonfinite"])
                           ELSE R(INTEGER(TruncDiv(left.value, right.value)), st)
      [] operator = "<" -> R(NativeBool(left.value < right.value), st)
      [] operator = ">" -> R(NativeBool(left.value > right.value), st)
      [] OTHER -> R(UnknownOperator(operator, left, right), st)

evaluateStringInfixExpression(operator, left, right, st) ==
    CASE operator = "==" -> R(NativeBool(left.value = right.value), st)
      [] operator = "!=" -> R(NativeBool(left.value # right.value), st)
      [] operator = "+" -> R(StringObj(st.nextId, left.value \o right.value),
                             [st EXCEPT !.nextId = @ - 1])
      [] OTHER -> R(UnknownOperator(operator, left, right), st)

evaluateInfixExpression(operator, left, right, st) ==
    IF left.type # right.type
    THEN R(ErrorObj("type mismatch: " \o left.type \o " " \o operator \o " " \o right.type), st)
    ELSE IF left.type = "STRING" THEN evaluateStringInfixExpression(operator, left, right, st)
    ELSE IF left.type = "INTEGER" THEN evaluateIntegerInfixExpression(operator, left, right, st)
    ELSE IF operator = "==" THEN R(NativeBool(left.id = right.id), st)
    ELSE IF operator = "!=" THEN R(NativeBool(left.id # right.id), st)
    ELSE R(UnknownOperator(operator, left, right), st)

evaluateArrayIndexExpression(array, index) ==
    LET maxIndex == Len(array.elements) - 1
    IN  IF index.value < 0 \/ index.value > maxIndex THEN NULL ELSE array.elements[index.value + 1]

evaluateHashIndexExpression(hash, index) ==
    IF ~Hashable(index) THEN ErrorObj("unusable as hash key: " \o index.type)
    ELSE LET pair == MapGet(hash.pairs, HashKey(index))
         IN  IF pair = Undefined THEN NULL ELSE pair.value

evaluateIndexExpression(left, index) ==
    IF left.type = "ARRAY" /\ index.type = "INTEGER" THEN evaluateArrayIndexExpression(left, index)
    ELSE IF left.type = "HASH" THEN evaluateHashIndexExpression(left, index)
    ELSE ErrorObj("unknown operator for indexing: " \o left.type)

\* BUILTIN.find(value => value.name === name)?.builtin
FindBuiltin(name) ==
    LET at == {i \in 1..Len(BuiltinNames) : BuiltinNames[i] = name}
    IN  IF at = {} THEN Undefined ELSE BuiltinObj((CHOOSE i \in at : TRUE) - 1)

evaluateIdentifier(node, env, st) ==
    LET value == EnvGet(st.envs, env, node.value)
        builtin == FindBuiltin(node.value)
    IN  R(IF value # Undefined THEN value
          ELSE IF builtin # Undefined THEN builtin
          ELSE ErrorObj("identifier not found: " \o node.value), st)

\* func.func(args) of a BuiltinObj
applyBuiltin(func, args, st) ==
    LET result == builtinFunc(func.index, args, st.nextId)
    IN  IF builtinThrows(func.index, args) THEN R(Undefined, [st EXCEPT !.status = "thrown"])
        ELSE R(result,
               [st EXCEPT !.nextId = IF result.id = st.nextId THEN @ - 1 ELSE @,
                          !.out = IF BuiltinNames[func.index + 1] = "puts"
                                  THEN @ \o putsLines(args) ELSE @])

\* for (const idx in func.parameters) enclosingEnv.set(func.parameters[idx].value, args[idx])
RECURSIVE SetParameters(_, _, _, _, _)
SetParameters(st, env, parameters, args, idx) ==
    IF idx > Len(parameters) THEN st
    ELSE SetParameters(EnvSet(st, env, parameters[idx], GetAt(args, idx - 1)),
                       env, parameters, args, idx + 1)

RECURSIVE evaluate(_, _, _)
RECURSIVE evaluateProgram(_, _, _, _)
RECURSIVE evaluateBlockStatement(_, _, _, _)
RECURSIVE evaluateExpressions(_, _, _, _)
RECURSIVE evaluateHashLiteral(_, _, _, _)
RECURSIVE evaluateIfExpression(_, _, _)
RECURSIVE applyFunction(_, _, _)
RECURSIVE evaluateWhileLoop(_, _, _, _, _, _)
RECURSIVE evaluateWhileExpression(_, _, _)

\* the loop of evaluateProgram over the statements left, result the last value
evaluateProgram(statements, env, st, result) ==
    IF statements = <<>> THEN R(result, st)
    ELSE LET r == evaluate(Head(statements), env, st)
         IN  IF r.stop THEN r
             ELSE IF r.val.type = "RETURN_VALUE" THEN R(r.val.returnValue, r.st)
             ELSE evaluateProgram(Tail(statements), env, r.st, r.val)

evaluateBlockStatement(statements, env, st, result) ==
    IF statements = <<>> THEN R(result, st)
    ELSE LET r == evaluate(Head(statements), env, st)
         IN  IF r.stop THEN r
             ELSE IF r.val.id # NULL_ID /\ r.val.type \in {"RETURN_VALUE", "BREAK"} THEN r
             ELSE evaluateBlockStatement(Tail(statements), env, r.st, r.val)

\* evaluateExpressions: val is the ErrorObj met, or an ARRAY-like list of results
evaluateExpressions(exps, env, st, results) ==
    IF exps = <<>> THEN R([type |-> "LIST", id |-> 0, elements |-> results], st)
    ELSE LET r == evaluate(Head(exps), env, st)
         IN  IF r.stop THEN Yielded(r)
             ELSE evaluateExpressions(Tail(exps), env, r.st, Append(results, r.val))

\* the forEach of evaluateHashLiteral: a return in the callback ends that pair only
evaluateHashLiteral(nodePairs, env, st, pairs) ==
    IF nodePairs = <<>> THEN R(HashObj(st.nextId, pairs), [st EXCEPT !.nextId = @ - 1])
    ELSE LET key == evaluate(Head(nodePairs)[1], env, st)
             value == evaluate(Head(nodePairs)[2], env, key.st)
         IN  IF key.stop /\ key.st.status # "running" THEN key
             ELSE IF key.stop \/ ~Hashable(key.val)
             THEN evaluateHashLiteral(Tail(nodePairs), env, Yielded(key).st, pairs)
             ELSE IF value.stop /\ value.st.status # "running" THEN value
             ELSE IF value.stop
             THEN evaluateHashLiteral(Tail(nodePairs), env, Yielded(value).st, pairs)
             ELSE evaluateHashLiteral(Tail(nodePairs), env, value.st,
                                      MapSet(pairs, HashKey(key.val),
                                             [key |-> key.val, value |-> value.val]))

\* ghost: the events of the blocks and loops of an evaluation, in order.
\*   "if", "body": a branch of an if or the body of a while is about to run in
\*       blockEnv, made while env was current and had environments existed;
\*       created is blockEnv as it was made
\*   "while": a while expression is entered in env; loop, the position of this
\*       event, names the loop in the events that follow
\*   "cond": the condition of loop was evaluated in env to value
\*   "result": the body of loop returned value
\*   "apply": the call of a function returned value to its caller
NoteTrail(st, kind, loop, env, blockEnv, had, value) ==
    [st EXCEPT !.trail = Append(@, [kind |-> kind, loop |-> loop, env |-> env,
                                    blockEnv |-> blockEnv, had |-> had,
                                    created |-> st.envs[blockEnv], value |-> value])]

evaluateIfExpression_sameEnv(node, env, st) ==
    LET condition == evaluate(node.condition, env, st)
        st2 == NoteTrail(condition.st, "if", 0, env, env, Len(condition.st.envs), condition.val)
    IN  IF condition.stop THEN Yielded(condition)
        ELSE IF isTruthyEval(condition.val) THEN evaluate(node.consequence, env, st2)
        ELSE IF node.alternative # NoNode THEN evaluate(node.alternative, env, st2)
        ELSE R(NULL, condition.st)

evaluateIfExpression(node, env, st) ==
    LET condition == evaluate(node.condition, env, st)
        st1 == enclosedEnv(condition.st, env)
        st2 == NoteTrail(st1, "if", 0, env, Len(st1.envs), Len(condition.st.envs), condition.val)
    IN  IF condition.stop THEN Yielded(condition)
        ELSE IF isTruthyEval(condition.val) THEN evaluate(node.consequence, Len(st2.envs), st2)
        ELSE IF node.alternative # NoNode THEN evaluate(node.alternative, Len(st2.envs), st2)
        ELSE R(NULL, condition.st)

applyFunction(func, args, st) ==
    IF func.type = "FUNCTION"
    THEN LET st2 == enclosedEnv(st, func.env)
             enclosingEnv == Len(st2.envs)
             st3 == SetParameters(st2, enclosingEnv, func.parameters, args, 1)
             evaluated == evaluate(func.body, enclosingEnv, st3)
         IN  IF evaluated.stop THEN evaluated
             ELSE IF evaluated.val.type = "RETURN_VALUE"
             THEN R(evaluated.val.returnValue,
                    NoteTrail(evaluated.st, "apply", 0, func.env, enclosingEnv, 0,
                              evaluated.val.returnValue))
             ELSE R(evaluated.val,
                    NoteTrail(evaluated.st, "apply", 0, func.env, enclosingEnv, 0, evaluated.val))
    ELSE IF func.type = "BUILTIN" THEN applyBuiltin(func, args, st)
    ELSE R(ErrorObj("not a function: " \o func.type), st)

evaluateReturnStatement(node, env, st) ==
    LET value == evaluate(node.value, env, st)
    IN  IF value.stop THEN value
        ELSE R(ReturnValueObj(value.val), value.st)

\* ghost: the let statement that bound name in env, and the environments
\* before and after it
NoteBound(st, name, env, before) ==
    [st EXCEPT !.lets = Append(@, [name |-> name, env |-> env, before |-> before,
                                   after |-> st.envs])]

evaluateLetStatement(node, env, st) ==
    LET value == evaluate(node.value, env, st)
    IN  IF value.stop THEN value
        ELSE IF value.val.type \in {"NULL", "EMPTY", "BREAK"}
        THEN R(ErrorObj("cant assign null to variable '" \o node.name \o "'"), value.st)
        ELSE R(EMPTY, NoteBound(EnvSet(value.st, env, node.name, value.val), node.name, env,
                              value.st.envs))

\* the while loop of evaluateWhileExpression, entered with the value of the
\* condition and the result so far
evaluateWhileLoop(node, env, st, condition, result, loop) ==
    IF condition # BOOLEAN_TRUE THEN R(result, st)
    ELSE LET st2 == enclosedEnv(st, env)
             enclosingEnv == Len(st2.envs)
             r == evaluate(node.loop, enclosingEnv,
                           NoteTrail(st2, "body", loop, env, enclosingEnv, Len(st.envs), condition))
             done == NoteTrail(r.st, "result", loop, env, enclosingEnv, Len(st.envs), r.val)
             \* re-evaluate condition using outer env
             again == evaluate(node.condition, env, done)
         IN  IF r.stop THEN Yielded(r)
             ELSE IF r.val.type = "BREAK" THEN R(EMPTY, done)
             ELSE IF again.stop THEN Yielded(again)
             ELSE evaluateWhileLoop(node, env,
                                    NoteTrail(again.st, "cond", loop, env, env, 0, again.val),
                                    again.val, r.val, loop)

evaluateWhileExpression(node, env, st) ==
    LET loop == Len(st.trail) + 1
        condition == evaluate(node.condition, env, NoteTrail(st, "while", loop, env, env, 0, NULL))
    IN  IF condition.stop THEN Yielded(condition)
        ELSE evaluateWhileLoop(node, env,
                               NoteTrail(condition.st, "cond", loop, env, env, 0, condition.val),
                               condition.val, NULL, loop)

\* ghost: the assignment of value to name in env, the environments before and
\* after it and what the statement returned
NoteAssign(st, name, env, value, before, result) ==
    [st EXCEPT !.assigns = Append(@, [name |-> name, env |-> env, value |-> value,
                                      before |-> before, after |-> st.envs,
                                      result |-> result])]

evaluateAssignmentStatement(node, env, st) ==
    LET value == evaluate(node.value, env, st)
        result == reassign(value.st, env, node.name, value.val)
        error == ErrorObj("cant assign to undefined identifier: '" \o node.name \o "'")
    IN  IF value.stop THEN value
        ELSE IF value.val.type \in {"NULL", "EMPTY", "BREAK"}
        THEN R(ErrorObj("cant assign null to variable '" \o node.name \o "'"), value.st)
        ELSE IF ~result.found
        THEN R(error, NoteAssign(result.st, node.name, env, value.val, value.st.envs, error))
        ELSE R(EMPTY, NoteAssign(result.st, node.name, env, value.val, value.st.envs, EMPTY))

evaluatePrefix(node, env, st) ==
    LET right == evaluate(node.right, env, st)
    IN  IF right.stop THEN Yielded(right)
        ELSE R(evaluatePrefixExpression(node.operator, right.val), right.st)

evaluateInfix(node, env, st) ==
    LET left == evaluate(node.left, env, st)
        right == evaluate(node.right, env, left.st)
    IN  IF left.stop THEN Yielded(left)
        ELSE IF right.stop THEN Yielded(right)
        ELSE evaluateInfixExpression(node.operator, left.val, right.val, right.st)

evaluateCall(node, env, st) ==
    LET func == evaluate(node.func, env, st)
        args == evaluateExpressions(node.args, env, func.st, <<>>)
    IN  IF func.stop THEN Yielded(func)
        ELSE IF args.stop THEN args
        ELSE applyFunction(func.val, args.val.elements, args.st)

evaluateIndex(node, env, st) ==
    LET left == evaluate(node.left, env, st)
        index == evaluate(node.index, env, left.st)
    IN  IF left.stop THEN Yielded(left)
        ELSE IF index.stop THEN Yielded(index)
        ELSE R(evaluateIndexExpression(left.val, index.val), index.st)

evaluateArrayLiteral(node, env, st) ==
    LET elements == evaluateExpressions(node.elements, env, st, <<>>)
    IN  IF elements.stop THEN elements
        ELSE R(ArrayObj(elements.st.nextId, elements.val.elements),
               [elements.st EXCEPT !.nextId = @ - 1])

\* evaluate(node, env); the ghost counts the call
evaluate(node, env, st0) ==
    CASE st0.status # "running" -> R(Undefined, st0)
      [] node.kind = "Program" -> evaluateProgram(node.statements, env, Entered(st0), NULL)
      [] node.kind = "BlockStatement" ->
            evaluateBlockStatement(node.statements, env, Entered(st0), NULL)
      [] node.kind = "ReturnStatement" -> evaluateReturnStatement(node, env, Entered(st0))
      [] node.kind = "LetStatement" -> evaluateLetStatement(node, env, Entered(st0))
      [] node.kind = "AssignmentStatement" -> evaluateAssignmentStatement(node, env, Entered(st0))
      [] node.kind = "Identifier" -> evaluateIdentifier(node, env, Entered(st0))
      [] node.kind = "ExpressionStatement" -> evaluate(node.value, env, Entered(st0))
      [] node.kind = "PrefixExpression" -> evaluatePrefix(node, env, Entered(st0))
      [] node.kind = "InfixExpression" -> evaluateInfix(node, env, Entered(st0))
      [] node.kind = "IfExpression" -> evaluateIfExpression(node, env, Entered(st0))
      [] node.kind = "WhileExpression" -> evaluateWhileExpression(node, env, Entered(st0))
      [] node.kind = "BreakStatement" -> R(BreakObj, Entered(st0))
      [] node.kind = "CallExpression" -> evaluateCall(node, env, Entered(st0))
      [] node.kind = "IndexExpression" -> evaluateIndex(node, env, Entered(st0))
      [] node.kind = "IntegerLiteral" -> R(INTEGER(node.value), Entered(st0))
      [] node.kind = "StringLiteral" -> 
            R(StringObj(st0.nextId, node.value), [Entered(st0) EXCEPT !.nextId = @ - 1])
      [] node.kind = "BooleanLiteral" -> R(NativeBool(node.value), Entered(st0))
      [] node.kind = "FunctionLiteral" -> 
            R(FunctionObj(st0.nextId, node.parameters, node.body, env),
              [Entered(st0) EXCEPT !.nextId = @ - 1])
      [] node.kind = "ArrayLiteral" -> evaluateArrayLiteral(node, env, Entered(st0))
      [] node.kind = "HashLiteral" -> evaluateHashLiteral(node.pairs, env, Entered(st0), <<>>)
      [] OTHER -> R(NULL, Entered(st0))

-----------------------------------------------------------------------------
(* Compiling a program and running it: new Compiler(), compile(program),       *)
(* new VM(compiler.bytecode()), run().  One action per case of the switch in   *)
(* run(), one for each way the loop of run() ends.                             *)

\* the VM before new VM(...)
NoVM == [NewVM([instructions |-> <<>>, constants |-> <<>>], <<>>, 0) EXCEPT !.status = "idle"]

\* ghost of a closure call: where it was made from
NoCall ==
    [s |-> 0, k |-> 0, depth |-> 0, below |-> <<>>, tracked |-> FALSE, valid |-> FALSE,
     args |-> <<>>, written |-> {}]

\* the fnLog entry of the function at constants[fnIndex]
FnLogOf(c, fnIndex) ==
    LET at == {i \in 1..Len(c.fnLog) : c.fnLog[i].funcIndex = fnIndex}
    IN  c.fnLog[CHOOSE i \in at : TRUE]

\* the value the variable of symbol sym has in the frame that v is executing
VarValue(v, sym) ==
    CASE sym.scope = LocalScope -> StackGet(v, currentFrame(v).basePointer + sym.index)
      [] sym.scope = FreeScope -> GetAt(currentFrame(v).cl.free, sym.index)
      [] sym.scope = FunctionScope -> currentFrame(v).cl
      [] sym.scope = GlobalScope -> GetAt(v.globals, sym.index)
      [] OTHER -> Undefined

Ids(objs) == [i \in 1..Len(objs) |-> objs[i].id]

\* ghost: the captured variables' values when an OpClosure made the closure nextId
BuiltAfter(op, v2) ==
    IF op = OpClosure /\ v2.status = "running"
    THEN LET e == FnLogOf(comp, Operand16(AddIp(vm, 1)))
         IN  (vm.nextId :> [i \in 1..Len(e.freeSymbols) |-> VarValue(vm, e.freeSymbols[i])]) @@ last.built
    ELSE last.built

\* ghost: the closure calls that have not returned
CallsAfter(op, v2) ==
    IF op = OpCall /\ v2.framesIndex = vm.framesIndex + 1
    THEN LET k == Operand8(AddIp(vm, 1))
         IN  Append(last.calls,
                    [s |-> vm.sp, k |-> k, depth |-> vm.framesIndex, valid |-> TRUE,
                     args |-> [i \in 1..k |-> StackGet(vm, vm.sp - k + i - 1)],
                     written |-> {},
                     tracked |-> vm.framesIndex <= TrackDepth,
                     below |-> IF vm.framesIndex <= TrackDepth
                               THEN Ids(SubSeq(vm.stack, 1, vm.sp - k - 1)) ELSE <<>>])
    ELSE IF op \in {OpReturnValue, OpReturnNull} /\ last.calls # <<>>
    THEN SubSeq(last.calls, 1, Len(last.calls) - 1)
    ELSE IF op = OpSetLocal /\ last.calls # <<>>
    THEN [last.calls EXCEPT ![Len(last.calls)].written = @ \cup {Operand8(AddIp(vm, 1))}]
    ELSE last.calls

\* ghost: the indices of the globals that an OpSetGlobal has stored to
GlobalsSetAfter(op) ==
    IF op = OpSetGlobal THEN last.globalsSet \cup {Operand16(AddIp(vm, 1))} ELSE last.globalsSet

\* ghost: the call that an OpReturnValue or OpReturnNull returns from
RetAfter(op) ==
    IF op \in {OpReturnValue, OpReturnNull} /\ last.calls # <<>>
    THEN last.calls[Len(last.calls)] ELSE NoCall

\* ghost: the if-expressions that v2 is inside, given those of the state before.
\* An OpJumpNotTruthy enters one: depth is its frame, s the stack pointer once
\* the condition is popped, end the operand of the OpJump before the target,
\* the offset after the alternative.  The frame's return leaves it.
IfReached(e, v2) == e.depth = v2.framesIndex /\ currentFrame(v2).ip + 1 >= e.end
IfsAfter(op, v2) ==
    IF v2.status # "running" THEN last.ifs
    ELSE LET inFrames(e) == e.depth <= v2.framesIndex
             open(e) == ~IfReached(e, v2)
             target == Operand16(AddIp(vm, 1))
         IN  SelectSeq(SelectSeq(last.ifs, inFrames), open)
             \o (IF op = OpJumpNotTruthy
                 THEN <<[depth |-> vm.framesIndex, s |-> v2.sp,
                         end |-> readUint16BE(NextInstructions(vm), target - 2)]>>
                 ELSE <<>>)

\* ghost: the if-expressions whose end the step to v2 reached, with the stack
\* pointer it reached the end with
IfsClosed(v2) ==
    IF v2.status # "running" THEN <<>>
    ELSE LET inFrames(e) == e.depth <= v2.framesIndex
             reached(e) == IfReached(e, v2)
             closed == SelectSeq(SelectSeq(last.ifs, inFrames), reached)
         IN  [i \in 1..Len(closed) |-> [s |-> closed[i].s, end |-> closed[i].end, sp |-> v2.sp]]

\* one turn of the loop of run(): the condition holds and the opcode at ip + 1 is op
Fetches(op) ==
    /\ vm.status = "running"
    /\ vm.framesIndex >= 1
    /\ LoopCondition(vm)
    /\ NextOp(vm) = op

\* ... and v2 is the VM after ip++ and the case of op
Step(op, v2) ==
    /\ vm' = v2
    /\ last' = [op |-> op, pre |-> vm, built |-> BuiltAfter(op, v2),
                calls |-> CallsAfter(op, v2), ret |-> RetAfter(op),
                ifs |-> IfsAfter(op, v2), closed |-> IfsClosed(v2),
                globalsSet |-> GlobalsSetAfter(op)]
    /\ UNCHANGED <<code, repl, tables, symLast, prog, comp, ev>>

DoOpConstant ==
    /\ Fetches(OpConstant)
    /\ Step(OpConstant, caseOpConstant(AddIp(vm, 1)))
DoOpTrue ==
    /\ Fetches(OpTrue)
    /\ Step(OpTrue, caseOpTrue(AddIp(vm, 1)))
DoOpFalse ==
    /\ Fetches(OpFalse)
    /\ Step(OpFalse, caseOpFalse(AddIp(vm, 1)))
DoOpNull ==
    /\ Fetches(OpNull)
    /\ Step(OpNull, caseOpNull(AddIp(vm, 1)))
DoOpPop ==
    /\ Fetches(OpPop)
    /\ Step(OpPop, caseOpPop(AddIp(vm, 1)))
DoOpMinus ==
    /\ Fetches(OpMinus)
    /\ Step(OpMinus, executeMinusOperator(AddIp(vm, 1)))
DoOpBang ==
    /\ Fetches(OpBang)
    /\ Step(OpBang, executeBangOperator(AddIp(vm, 1)))
DoOpAdd ==
    /\ Fetches(OpAdd)
    /\ Step(OpAdd, executeBinaryOperation(AddIp(vm, 1), OpAdd))
DoOpSub ==
    /\ Fetches(OpSub)
    /\ Step(OpSub, executeBinaryOperation(AddIp(vm, 1), OpSub))
DoOpMul ==
    /\ Fetches(OpMul)
    /\ Step(OpMul, executeBinaryOperation(AddIp(vm, 1), OpMul))
DoOpDiv ==
    /\ Fetches(OpDiv)
    /\ Step(OpDiv, executeBinaryOperation(AddIp(vm, 1), OpDiv))
DoOpEqual ==
    /\ Fetches(OpEqual)
    /\ Step(OpEqual, executeComparison(AddIp(vm, 1), OpEqual))
DoOpNotEqual ==
    /\ Fetches(OpNotEqual)
    /\ Step(OpNotEqual, executeComparison(AddIp(vm, 1), OpNotEqual))
DoOpGreaterThan ==
    /\ Fetches(OpGreaterThan)
    /\ Step(OpGreaterThan, executeComparison(AddIp(vm, 1), OpGreaterThan))
DoOpJumpNotTruthy ==
    /\ Fetches(OpJumpNotTruthy)
    /\ Step(OpJumpNotTruthy, caseOpJumpNotTruthy(AddIp(vm, 1)))
DoOpJump ==
    /\ Fetches(OpJump)
    /\ Step(OpJump, caseOpJump(AddIp(vm, 1)))
DoOpGetGlobal ==
    /\ Fetches(OpGetGlobal)
    /\ Step(OpGetGlobal, caseOpGetGlobal(AddIp(vm, 1)))
DoOpSetGlobal ==
    /\ Fetches(OpSetGlobal)
    /\ Step(OpSetGlobal, caseOpSetGlobal(AddIp(vm, 1)))
DoOpGetLocal ==
    /\ Fetches(OpGetLocal)
    /\ Step(OpGetLocal, caseOpGetLocal(AddIp(vm, 1)))
DoOpSetLocal ==
    /\ Fetches(OpSetLocal)
    /\ Step(OpSetLocal, caseOpSetLocal(AddIp(vm, 1)))
DoOpGetBuiltin ==
    /\ Fetches(OpGetBuiltin)
    /\ Step(OpGetBuiltin, caseOpGetBuiltin(AddIp(vm, 1)))
DoOpArray ==
    /\ Fetches(OpArray)
    /\ Step(OpArray, caseOpArray(AddIp(vm, 1)))
DoOpHash ==
    /\ Fetches(OpHash)
    /\ Step(OpHash, caseOpHash(AddIp(vm, 1)))
DoOpIndex ==
    /\ Fetches(OpIndex)
    /\ Step(OpIndex, caseOpIndex(AddIp(vm, 1)))
DoOpCall ==
    /\ Fetches(OpCall)
    /\ Step(OpCall, caseOpCall(AddIp(vm, 1)))
DoOpReturnValue ==
    /\ Fetches(OpReturnValue)
    /\ Step(OpReturnValue, caseOpReturnValue(AddIp(vm, 1)))
DoOpReturnNull ==
    /\ Fetches(OpReturnNull)
    /\ Step(OpReturnNull, caseOpReturnNull(AddIp(vm, 1)))
DoOpClosure ==
    /\ Fetches(OpClosure)
    /\ Step(OpClosure, caseOpClosure(AddIp(vm, 1)))
DoOpGetFree ==
    /\ Fetches(OpGetFree)
    /\ Step(OpGetFree, caseOpGetFree(AddIp(vm, 1)))
DoOpCurrentClosure ==
    /\ Fetches(OpCurrentClosure)
    /\ Step(OpCurrentClosure, caseOpCurrentClosure(AddIp(vm, 1)))

\* the loop condition is false: run() returns
Halt ==
    /\ vm.status = "running"
    /\ vm.framesIndex >= 1
    /\ ~LoopCondition(vm)
    /\ vm' = [vm EXCEPT !.status = "done"]
    /\ UNCHANGED <<code, repl, tables, symLast, prog, comp, last, ev>>

\* the main frame was popped: currentFrame() is undefined and the loop condition
\* throws a TypeError
LoopTypeError ==
    /\ vm.status = "running"
    /\ vm.framesIndex < 1
    /\ vm' = TypeError(vm)
    /\ UNCHANGED <<code, repl, tables, symLast, prog, comp, last, ev>>

\* vm.lastPoppedStackElement()
lastPoppedStackElement(v) == StackGet(v, v.sp)

-----------------------------------------------------------------------------
(* The programs the specifications run, as the parser returns them.  n is the  *)
(* integer argument a program is given.                                        *)

\* abbreviations for writing the programs down
Id(name) == Identifier(name)
Num(v) == IntegerLiteral(v)
Str(v) == StringLiteral(v)
ES(e) == ExpressionStatement(e)
Let(name, v) == LetStatement(name, v)
Fn(params, stmts) == FunctionLiteral(params, BlockStatement(stmts))
Call(f, args) == CallExpression(f, args)
Infix(l, op, r) == InfixExpression(op, l, r)
If(c, cons, alt) == IfExpression(c, BlockStatement(cons), BlockStatement(alt))
IfOnly(c, cons) == IfExpression(c, BlockStatement(cons), NoNode)

Programs(n) == <<
    \* 1: let add = fn(a, b) { a + b }; add(n, 2)
    Program(<<Let("add", Fn(<<"a", "b">>, <<ES(Infix(Id("a"), "+", Id("b")))>>)),
              ES(Call(Id("add"), <<Num(n), Num(2)>>))>>),
    \* 2: let newAdder = fn(a) { fn(b) { a + b } }; let addTwo = newAdder(n); addTwo(3)
    Program(<<Let("newAdder", Fn(<<"a">>, <<ES(Fn(<<"b">>, <<ES(Infix(Id("a"), "+", Id("b")))>>))>>)),
              Let("addTwo", Call(Id("newAdder"), <<Num(n)>>)),
              ES(Call(Id("addTwo"), <<Num(3)>>))>>),
    \* 3: let f = fn(a) { 1 + fn() { a }() }; f(n)
    Program(<<Let("f", Fn(<<"a">>, <<ES(Infix(Num(1), "+", Call(Fn(<<>>, <<ES(Id("a"))>>), <<>>)))>>)),
              ES(Call(Id("f"), <<Num(n)>>))>>),
    \* 4: let countdown = fn(x) { if (x == 0) { 0 } else { countdown(x - 1) } }; countdown(n)
    Program(<<Let("countdown", Fn(<<"x">>,
                <<ES(If(Infix(Id("x"), "==", Num(0)), <<ES(Num(0))>>,
                        <<ES(Call(Id("countdown"), <<Infix(Id("x"), "-", Num(1))>>))>>))>>)),
              ES(Call(Id("countdown"), <<Num(n)>>))>>),
    \* 5: let wrapper = fn() { let countdown = fn(x) { if (x == 0) { 0 } else { countdown(x - 1) } };
    \*                         countdown(n) }; wrapper()
    Program(<<Let("wrapper", Fn(<<>>,
                <<Let("countdown", Fn(<<"x">>,
                    <<ES(If(Infix(Id("x"), "==", Num(0)), <<ES(Num(0))>>,
                            <<ES(Call(Id("countdown"), <<Infix(Id("x"), "-", Num(1))>>))>>))>>)),
                  ES(Call(Id("countdown"), <<Num(n)>>))>>)),
              ES(Call(Id("wrapper"), <<>>))>>),
    \* 6: fn(a) { fn(b) { fn(c) { a + b + c } } }(n)(2)(3)
    Program(<<ES(Call(Call(Call(
                Fn(<<"a">>, <<ES(Fn(<<"b">>, <<ES(Fn(<<"c">>,
                    <<ES(Infix(Infix(Id("a"), "+", Id("b")), "+", Id("c")))>>))>>))>>),
                <<Num(n)>>), <<Num(2)>>), <<Num(3)>>))>>),
    \* 7: let f = fn(x) { let g = fn() { f }; g() == f }; f(n)
    Program(<<Let("f", Fn(<<"x">>, <<Let("g", Fn(<<>>, <<ES(Id("f"))>>)),
                                      ES(Infix(Call(Id("g"), <<>>), "==", Id("f")))>>)),
              ES(Call(Id("f"), <<Num(n)>>))>>),
    \* 8: let f = fn(f) { f }; f(n)
    Program(<<Let("f", Fn(<<"f">>, <<ES(Id("f"))>>)), ES(Call(Id("f"), <<Num(n)>>))>>),
    \* 9: let f = fn() { let f = n; f }; f()
    Program(<<Let("f", Fn(<<>>, <<Let("f", Num(n)), ES(Id("f"))>>)), ES(Call(Id("f"), <<>>))>>),
    \* 10: let g = 10; let f = fn(a) { let b = a * 2; let c = fn(d) { g + a + b + d }; c(n) }; f(1)
    Program(<<Let("g", Num(10)),
              Let("f", Fn(<<"a">>,
                <<Let("b", Infix(Id("a"), "*", Num(2))),
                  Let("c", Fn(<<"d">>, <<ES(Infix(Infix(Infix(Id("g"), "+", Id("a")), "+", Id("b")),
                                                   "+", Id("d")))>>)),
                  ES(Call(Id("c"), <<Num(n)>>))>>)),
              ES(Call(Id("f"), <<Num(1)>>))>>),
    \* 11: let f = fn(x) { return x; 10 }; f(n)
    Program(<<Let("f", Fn(<<"x">>, <<ReturnStatement(Id("x")), ES(Num(10))>>)),
              ES(Call(Id("f"), <<Num(n)>>))>>),
    \* 12: let f = fn() { }; f()
    Program(<<Let("f", Fn(<<>>, <<>>)), ES(Call(Id("f"), <<>>))>>),
    \* 13: let one = 1; let two = one + one; one + two - n
    Program(<<Let("one", Num(1)), Let("two", Infix(Id("one"), "+", Id("one"))),
              ES(Infix(Infix(Id("one"), "+", Id("two")), "-", Num(n)))>>),
    \* 14: [1, 2 * 2, 3 + 3][n]
    Program(<<ES(IndexExpression(ArrayLiteral(<<Num(1), Infix(Num(2), "*", Num(2)),
                                               Infix(Num(3), "+", Num(3))>>), Num(n)))>>),
    \* 15: {2: 3, 1: 4, "a": true}[n]
    Program(<<ES(IndexExpression(HashLiteral(<<<<Num(2), Num(3)>>, <<Num(1), Num(4)>>,
                                              <<Str("a"), BooleanLiteral(TRUE)>>>>), Num(n)))>>),
    \* 16: len("abc") + len([1, n])
    Program(<<ES(Infix(Call(Id("len"), <<Str("abc")>>), "+",
                       Call(Id("len"), <<ArrayLiteral(<<Num(1), Num(n)>>)>>)))>>),
    \* 17: first(rest(push([1, 2], n)))
    Program(<<ES(Call(Id("first"), <<Call(Id("rest"),
                    <<Call(Id("push"), <<ArrayLiteral(<<Num(1), Num(2)>>), Num(n)>>)>>)>>))>>),
    \* 18: last([1, n]); puts("hi", n)
    Program(<<ES(Call(Id("last"), <<ArrayLiteral(<<Num(1), Num(n)>>)>>)),
              ES(Call(Id("puts"), <<Str("hi"), Num(n)>>))>>),
    \* 19: "mon" + "key"
    Program(<<ES(Infix(Str("mon"), "+", Str("key")))>>),
    \* 20: "a" == "a"
    Program(<<ES(Infix(Str("a"), "==", Str("a")))>>),
    \* 21: if (n > 1) { 10 } else { 20 }
    Program(<<ES(If(Infix(Num(n), ">", Num(1)), <<ES(Num(10))>>, <<ES(Num(20))>>))>>),
    \* 22: if (n < 1) { 10 }
    Program(<<ES(IfOnly(Infix(Num(n), "<", Num(1)), <<ES(Num(10))>>))>>),
    \* 23: !(-n != 0 - 1)
    Program(<<ES(PrefixExpression("!", Infix(PrefixExpression("-", Num(n)), "!=",
                                              Infix(Num(0), "-", Num(1)))))>>),
    \* 24: (0 - 7) / (n + 1)
    Program(<<ES(Infix(Infix(Num(0), "-", Num(7)), "/", Infix(Num(n), "+", Num(1))))>>),
    \* 25: true == false
    Program(<<ES(Infix(BooleanLiteral(TRUE), "==", BooleanLiteral(FALSE)))>>),
    \* 26: 5 + true
    Program(<<ES(Infix(Num(5), "+", BooleanLiteral(TRUE)))>>),
    \* 27: -true
    Program(<<ES(PrefixExpression("-", BooleanLiteral(TRUE)))>>),
    \* 28: fn(a) { a }()
    Program(<<ES(Call(Fn(<<"a">>, <<ES(Id("a"))>>), <<>>))>>),
    \* 29: 1(n)
    Program(<<ES(Call(Num(1), <<Num(n)>>))>>),
    \* 30: len(1)
    Program(<<ES(Call(Id("len"), <<Num(1)>>))>>),
    \* 31: foobar
    Program(<<ES(Id("foobar"))>>),
    \* 32: return n; 5
    Program(<<ReturnStatement(Num(n)), ES(Num(5))>>),
    \* 33: let f = fn(a, b) { let c = a; let d = fn() { c + b }; if (a > 0) { let e = d(); e } }; f(n, 1)
    Program(<<Let("f", Fn(<<"a", "b">>,
                <<Let("c", Id("a")),
                  Let("d", Fn(<<>>, <<ES(Infix(Id("c"), "+", Id("b")))>>)),
                  ES(IfOnly(Infix(Id("a"), ">", Num(0)),
                            <<Let("e", Call(Id("d"), <<>>)), ES(Id("e"))>>))>>)),
              ES(Call(Id("f"), <<Num(n), Num(1)>>))>>),
    \* 34: let f = fn(a) { let a = 1; let b = a; let b = n; b }; f(5)
    Program(<<Let("f", Fn(<<"a">>, <<Let("a", Num(1)), Let("b", Id("a")), Let("b", Num(n)),
                                      ES(Id("b"))>>)),
              ES(Call(Id("f"), <<Num(5)>>))>>),
    \* 35: let f = fn(x) { if (x > 0) { let g = fn() { f(x - 1) }; g() } else { let f = 7; f } }; f(n)
    Program(<<Let("f", Fn(<<"x">>,
                <<ES(If(Infix(Id("x"), ">", Num(0)),
                        <<Let("g", Fn(<<>>, <<ES(Call(Id("f"), <<Infix(Id("x"), "-", Num(1))>>))>>)),
                          ES(Call(Id("g"), <<>>))>>,
                        <<Let("f", Num(7)), ES(Id("f"))>>))>>)),
              ES(Call(Id("f"), <<Num(n)>>))>>),
    \* 36: let f = fn(a) { a }; f(n, 2)
    Program(<<Let("f", Fn(<<"a">>, <<ES(Id("a"))>>)),
              ES(Call(Id("f"), <<Num(n), Num(2)>>))>>),
    \* 37: let f = fn() { let y = len(y); y }; f()
    Program(<<Let("f", Fn(<<>>, <<Let("y", Call(Id("len"), <<Id("y")>>)), ES(Id("y"))>>)),
              ES(Call(Id("f"), <<>>))>>),
    \* 38: push([1, 2], n, 3)
    Program(<<ES(Call(Id("push"), <<ArrayLiteral(<<Num(1), Num(2)>>), Num(n), Num(3)>>))>>),
    \* 39: ([n] == [n]) != true
    Program(<<ES(Infix(Infix(ArrayLiteral(<<Num(n)>>), "==", ArrayLiteral(<<Num(n)>>)),
                       "!=", BooleanLiteral(TRUE)))>>),
    \* 40: true > n
    Program(<<ES(Infix(BooleanLiteral(TRUE), ">", Num(n)))>>),
    \* 41: let f = fn() { let y = y > 1; y }; f()
    Program(<<Let("f", Fn(<<>>, <<Let("y", Infix(Id("y"), ">", Num(1))), ES(Id("y"))>>)),
              ES(Call(Id("f"), <<>>))>>),
    \* 42: {n: foobar, 2: puts(3)}
    Program(<<ES(HashLiteral(<<<<Num(n), Id("foobar")>>,
                               <<Num(2), Call(Id("puts"), <<Num(3)>>)>>>>))>>),
    \* 43: [1, -true, puts(n)][len(1)]
    Program(<<ES(IndexExpression(
                    ArrayLiteral(<<Num(1), PrefixExpression("-", BooleanLiteral(TRUE)),
                                   Call(Id("puts"), <<Num(n)>>)>>),
                    Call(Id("len"), <<Num(1)>>)))>>),
    \* 44: if (len(n)) { puts(1) } else { puts(2) }
    Program(<<ES(If(Call(Id("len"), <<Num(n)>>),
                    <<ES(Call(Id("puts"), <<Num(1)>>))>>,
                    <<ES(Call(Id("puts"), <<Num(2)>>))>>))>>),
    \* 45: let x = n; let f = fn() { x = x + 1; x }; f() + x
    Program(<<Let("x", Num(n)),
              Let("f", Fn(<<>>, <<AssignmentStatement("x", Infix(Id("x"), "+", Num(1))),
                                  ES(Id("x"))>>)),
              ES(Infix(Call(Id("f"), <<>>), "+", Id("x")))>>),
    \* 46: let x = 1; let y = 3; if (true) { let x = 2; x = n + 5; y = x }; x + y
    Program(<<Let("x", Num(1)), Let("y", Num(3)),
              ES(IfOnly(BooleanLiteral(TRUE),
                        <<Let("x", Num(2)), AssignmentStatement("x", Infix(Num(n), "+", Num(5))),
                          AssignmentStatement("y", Id("x"))>>)),
              ES(Infix(Id("x"), "+", Id("y")))>>),
    \* 47: let x = 1; y = n; x
    Program(<<Let("x", Num(1)), AssignmentStatement("y", Num(n)), ES(Id("x"))>>),
    \* 48: let x = 1; let f = fn(x) { x = n; 2 }; f(); x
    Program(<<Let("x", Num(1)),
              Let("f", Fn(<<"x">>, <<AssignmentStatement("x", Num(n)), ES(Num(2))>>)),
              ES(Call(Id("f"), <<>>)), ES(Id("x"))>>),
    \* 49: [[1, 2][n - 1], [1, 2][n + 1]]
    Program(<<ES(ArrayLiteral(<<
                IndexExpression(ArrayLiteral(<<Num(1), Num(2)>>), Infix(Num(n), "-", Num(1))),
                IndexExpression(ArrayLiteral(<<Num(1), Num(2)>>), Infix(Num(n), "+", Num(1)))>>))>>),
    \* 50: {1: 2}[[n]]
    Program(<<ES(IndexExpression(HashLiteral(<<<<Num(1), Num(2)>>>>), ArrayLiteral(<<Num(n)>>)))>>),
    \* 51: if (n > 0) { [n]["a"] } else { n[0] }
    Program(<<ES(If(Infix(Num(n), ">", Num(0)),
                    <<ES(IndexExpression(ArrayLiteral(<<Num(n)>>), Str("a")))>>,
                    <<ES(IndexExpression(Num(n), Num(0)))>>))>>),
    \* 52: let f = fn() { let y = [1][y]; y }; f()
    Program(<<Let("f", Fn(<<>>, <<Let("y", IndexExpression(ArrayLiteral(<<Num(1)>>), Id("y"))),
                                  ES(Id("y"))>>)),
              ES(Call(Id("f"), <<>>))>>),
    \* 53: let h = {1: 10, true: 20, "1": 30, "a" + "b": 40, "constructor": 50, 1: 60};
    \*     [h[1], h[true], h["1"], h["ab"], h["constructor"], h[n], h[false], h["toString"]]
    Program(<<Let("h", HashLiteral(<<<<Num(1), Num(10)>>, <<BooleanLiteral(TRUE), Num(20)>>,
                                     <<Str("1"), Num(30)>>,
                                     <<Infix(Str("a"), "+", Str("b")), Num(40)>>,
                                     <<Str("constructor"), Num(50)>>, <<Num(1), Num(60)>>>>)),
              ES(ArrayLiteral(<<IndexExpression(Id("h"), Num(1)),
                                IndexExpression(Id("h"), BooleanLiteral(TRUE)),
                                IndexExpression(Id("h"), Str("1")),
                                IndexExpression(Id("h"), Str("ab")),
                                IndexExpression(Id("h"), Str("constructor")),
                                IndexExpression(Id("h"), Num(n)),
                                IndexExpression(Id("h"), BooleanLiteral(FALSE)),
                                IndexExpression(Id("h"), Str("toString"))>>))>>),
    \* 54: if (n > 0) { } else { 5 }
    Program(<<ES(If(Infix(Num(n), ">", Num(0)), <<>>, <<ES(Num(5))>>))>>),
    \* 55: if (n > 0) { let a = n; } else { }
    Program(<<ES(If(Infix(Num(n), ">", Num(0)), <<Let("a", Num(n))>>, <<>>))>>),
    \* 56: let f = fn(x) { if (x > 1) { let b = x; } else { if (x > 0) { 2 } else { 3 } }; 7 }; f(n)
    Program(<<Let("f", Fn(<<"x">>,
                <<ES(If(Infix(Id("x"), ">", Num(1)), <<Let("b", Id("x"))>>,
                        <<ES(If(Infix(Id("x"), ">", Num(0)), <<ES(Num(2))>>, <<ES(Num(3))>>))>>)),
                  ES(Num(7))>>)),
              ES(Call(Id("f"), <<Num(n)>>))>>),
    \* 57: let a = [1, n]; let b = push(a, 3); let c = rest(a); [a, b, c, rest([]), rest(c), push(b, a)]
    Program(<<Let("a", ArrayLiteral(<<Num(1), Num(n)>>)),
              Let("b", Call(Id("push"), <<Id("a"), Num(3)>>)),
              Let("c", Call(Id("rest"), <<Id("a")>>)),
              ES(ArrayLiteral(<<Id("a"), Id("b"), Id("c"),
                                Call(Id("rest"), <<ArrayLiteral(<<>>)>>),
                                Call(Id("rest"), <<Id("c")>>),
                                Call(Id("push"), <<Id("b"), Id("a")>>)>>))>>),
    \* 58: let f = fn(x) { if (x > 0) { if (x > 1) { return x }; 1 } else { 2 }; let y = x; }; f(n)
    Program(<<Let("f", Fn(<<"x">>,
                <<ES(If(Infix(Id("x"), ">", Num(0)),
                        <<ES(IfOnly(Infix(Id("x"), ">", Num(1)), <<ReturnStatement(Id("x"))>>)),
                          ES(Num(1))>>,
                        <<ES(Num(2))>>)),
                  Let("y", Id("x"))>>)),
              ES(Call(Id("f"), <<Num(n)>>))>>),
    \* 59: (7 - n * 4) / (n - 1)
    Program(<<ES(Infix(Infix(Num(7), "-", Infix(Num(n), "*", Num(4))), "/",
                       Infix(Num(n), "-", Num(1))))>>),
    \* 60: let x = n; let y = 5; while (x > 0) { x = x - 1; let y = x; let x = 0 - 7 }; y + x
    Program(<<Let("x", Num(n)), Let("y", Num(5)),
              ES(WhileExpression(Infix(Id("x"), ">", Num(0)),
                   BlockStatement(<<AssignmentStatement("x", Infix(Id("x"), "-", Num(1))),
                                    Let("y", Id("x")),
                                    Let("x", Infix(Num(0), "-", Num(7)))>>))),
              ES(Infix(Id("y"), "+", Id("x")))>>),
    \* 61: let y = 5; let r = if (n > 0) { let y = n; y + 1 } else { let y = 7; y }; [r, y]
    Program(<<Let("y", Num(5)),
              Let("r", If(Infix(Num(n), ">", Num(0)),
                          <<Let("y", Num(n)), ES(Infix(Id("y"), "+", Num(1)))>>,
                          <<Let("y", Num(7)), ES(Id("y"))>>)),
              ES(ArrayLiteral(<<Id("r"), Id("y")>>))>>),
    \* 62: let f = fn(a) { let x = 0; while (x < a) { x = x + 1; return x }; 9 }; f(n)
    Program(<<Let("f", Fn(<<"a">>,
                <<Let("x", Num(0)),
                  ES(WhileExpression(Infix(Id("x"), "<", Id("a")),
                       BlockStatement(<<AssignmentStatement("x", Infix(Id("x"), "+", Num(1))),
                                        ReturnStatement(Id("x"))>>))),
                  ES(Num(9))>>)),
              ES(Call(Id("f"), <<Num(n)>>))>>),
    \* 63: let c = 0; while (n) { c = c + 1; break }; let d = if (n) { 10 } else { 0 }; c + d
    Program(<<Let("c", Num(0)),
              ES(WhileExpression(Num(n),
                   BlockStatement(<<AssignmentStatement("c", Infix(Id("c"), "+", Num(1))),
                                    BreakStatement>>))),
              Let("d", If(Num(n), <<ES(Num(10))>>, <<ES(Num(0))>>)),
              ES(Infix(Id("c"), "+", Id("d")))>>),
    \* 64: let x = 0; while (true) { x = x + 1; if (x > n) { break } }; x
    Program(<<Let("x", Num(0)),
              ES(WhileExpression(BooleanLiteral(TRUE),
                   BlockStatement(<<AssignmentStatement("x", Infix(Id("x"), "+", Num(1))),
                                    ES(IfOnly(Infix(Id("x"), ">", Num(n)), <<BreakStatement>>))>>))),
              ES(Id("x"))>>)
>>

-----------------------------------------------------------------------------
(* The specification of compiling and running one program *)

NoProgram == [set |-> "none", id |-> 0, arg |-> 0]
NoLast ==
    [op |-> 0 - 1, pre |-> NoVM, built |-> <<>>, calls |-> <<>>, ret |-> NoCall,
     ifs |-> <<>>, closed |-> <<>>, globalsSet |-> {}]
NoEval == [status |-> "idle"]
\* no REPL is running
NoRepl == [phase |-> "off"]
\* no instruction is being encoded or listed
NoCode == [phase |-> "idle"]

\* program i reads its argument
UsesArg(i) == Programs(0)[i] # Programs(1)[i]

\* programs that recurse without end:
\*   let f = fn(a, b, ..) { let u = 1; let v = 2; ..; f(a, b, ..) }; f(1, 2, ..)
\* with params parameters and lets let statements, the recursive call an expression
\* statement (form 1) or the value of one more let statement (form 2)
ParamNames == <<"a", "b", "c", "d", "e">>
LetNames == <<"u", "v", "w", "x", "y">>
DeepProgram(form, params, lets) ==
    LET recurse == Call(Id("f"), [i \in 1..params |-> Id(ParamNames[i])])
        body == [i \in 1..lets |-> Let(LetNames[i], Num(i))]
                \o <<IF form = 1 THEN ES(recurse) ELSE Let("r", recurse)>>
    IN  Program(<<Let("f", Fn(SubSeq(ParamNames, 1, params), body)),
                  ES(Call(Id("f"), [i \in 1..params |-> Num(i)]))>>)

TheProgram ==
    IF prog.set = "deep" THEN DeepProgram(prog.id, prog.params, prog.lets)
    ELSE Programs(prog.arg)[prog.id]

\* compiler.compile(program): returns, or throws a CompileError
Compile ==
    /\ prog.set # "none"
    /\ ~comp.compiled
    /\ comp' = [compile(comp, TheProgram) EXCEPT !.compiled = TRUE]
    /\ UNCHANGED <<code, repl, tables, symLast, prog, vm, last, ev>>

\* new VM(compiler.bytecode()), and run() is entered
StartVM ==
    /\ comp.compiled
    /\ comp.err = ""
    /\ vm.status = "idle"
    /\ vm' = NewVM(bytecode(comp), <<>>, comp.nextId)
    /\ UNCHANGED <<code, repl, tables, symLast, prog, comp, last, ev>>

\* the compiled run is over: compile() threw, or run() returned or threw
VmOver == comp.compiled /\ (comp.err # "" \/ vm.status \in {"done", "error", "crash", "nonfinite"})

\* evaluate(program, new Environment()): the same program goes to the evaluator
Evaluate ==
    /\ prog.set = "general"
    /\ VmOver
    /\ ev.status = "idle"
    /\ LET r == evaluate(TheProgram, 1, NewEvalState)
       IN  ev' = [status |-> IF r.st.status = "running" THEN "done" ELSE r.st.status,
                  result |-> r.val, out |-> r.st.out,
                  firstErr |-> r.st.firstErr, after |-> r.st.after, assigns |-> r.st.assigns,
                  trail |-> r.st.trail, lets |-> r.st.lets]
    /\ UNCHANGED <<code, repl, tables, symLast, prog, comp, vm, last>>

SymIdle ==
    /\ tables = <<NewSymbolTable>>
    /\ symLast = [op |-> "new", t |-> 1, name |-> "", sym |-> NoSymbol, calls |-> 0,
                  again |-> FALSE]

Init ==
    /\ prog \in {[set |-> "general", id |-> i, arg |-> a] : i \in 1..Len(Programs(0)), a \in 0..MaxArg}
    /\ prog.arg = 0 \/ UsesArg(prog.id)
    /\ comp = NewCompiler
    /\ vm = NoVM
    /\ last = NoLast
    /\ ev = NoEval
    /\ repl = NoRepl
    /\ code = NoCode
    /\ SymIdle

Next ==
    \/ Compile
    \/ StartVM
    \/ Evaluate
    \/ DoOpConstant
    \/ DoOpTrue
    \/ DoOpFalse
    \/ DoOpNull
    \/ DoOpPop
    \/ DoOpMinus
    \/ DoOpBang
    \/ DoOpAdd
    \/ DoOpSub
    \/ DoOpMul
    \/ DoOpDiv
    \/ DoOpEqual
    \/ DoOpNotEqual
    \/ DoOpGreaterThan
    \/ DoOpJumpNotTruthy
    \/ DoOpJump
    \/ DoOpGetGlobal
    \/ DoOpSetGlobal
    \/ DoOpGetLocal
    \/ DoOpSetLocal
    \/ DoOpGetBuiltin
    \/ DoOpArray
    \/ DoOpHash
    \/ DoOpIndex
    \/ DoOpCall
    \/ DoOpReturnValue
    \/ DoOpReturnNull
    \/ DoOpClosure
    \/ DoOpGetFree
    \/ DoOpCurrentClosure
    \/ Halt
    \/ LoopTypeError

Spec == Init /\ [][Next]_vars

\* The specification of the programs that recurse without end.  run() is taken
\* as one step.
InitDeep ==
    /\ prog \in {[set |-> "deep", id |-> form, arg |-> 0, params |-> p, lets |-> l] :
                    form \in 1..2, p \in 0..MaxDeepParams, l \in 0..MaxDeepLets}
    /\ comp = NewCompiler
    /\ vm = NoVM
    /\ last = NoLast
    /\ ev = NoEval
    /\ repl = NoRepl
    /\ code = NoCode
    /\ SymIdle

\* vm.run(), from its call to its return or throw
Run ==
    /\ vm.status = "running"
    /\ vm' = run(vm)
    /\ UNCHANGED <<code, repl, tables, symLast, prog, comp, last, ev>>

NextDeep ==
    \/ Compile
    \/ StartVM
    \/ Run

SpecDeep == InitDeep /\ [][NextDeep]_vars

-----------------------------------------------------------------------------
(* repl.ts: the loop of compiler().  One symbol table, one constant pool and   *)
(* one globals array are made before the loop and handed to the Compiler and   *)
(* the VM of every line.  A turn of the loop is taken in three steps: the      *)
(* line is read and parsed and its Compiler made, the line is compiled, and    *)
(* the line is run and its value printed.                                      *)

MaxReplLines == 3

\* the lines a user types, as the parser returns them
ReplInputs == <<
    \* 1: len("ab")
    Program(<<ES(Call(Id("len"), <<Str("ab")>>))>>),
    \* 2: let a = 1;
    Program(<<Let("a", Num(1))>>),
    \* 3: a + 2
    Program(<<ES(Infix(Id("a"), "+", Num(2)))>>),
    \* 4: let f = fn(x) { x + a }; f(2)
    Program(<<Let("f", Fn(<<"x">>, <<ES(Infix(Id("x"), "+", Id("a")))>>)),
              ES(Call(Id("f"), <<Num(2)>>))>>),
    \* 5: puts(first(rest(push([], 1))))
    Program(<<ES(Call(Id("puts"), <<Call(Id("first"), <<Call(Id("rest"),
                <<Call(Id("push"), <<ArrayLiteral(<<>>), Num(1)>>)>>)>>)>>))>>),
    \* 6: let a = foobar;
    Program(<<Let("a", Id("foobar"))>>),
    \* 7: let a = a + 2;
    Program(<<Let("a", Infix(Id("a"), "+", Num(2)))>>),
    \* 8: 9 + foobar
    Program(<<ES(Infix(Num(9), "+", Id("foobar")))>>)
>>

\* the names the let statements of a line bind at the top level
LetNamesOf(program) ==
    {program.statements[i].name :
        i \in {j \in 1..Len(program.statements) : program.statements[j].kind = "LetStatement"}}

\* ghost: the global bindings after a line that compiled with the symbol table
\* now symbolTable and ran without error to the globals now globals.  A name
\* the line binds gets the index of its symbol and the value stored there.
BoundAfter(bound, program, symbolTable, globals) ==
    [n \in (DOMAIN bound) \cup LetNamesOf(program) |->
        IF n \in LetNamesOf(program)
        THEN [index |-> symbolTable.store[n].index,
              value |-> GetAt(globals, symbolTable.store[n].index)]
        ELSE bound[n]]

\* const constants = []; const globals = new Array(GLOBALS_SIZE);
\* const symbolTable = new SymbolTable();
NewRepl ==
    [phase |-> "prompt", symbolTable |-> NewSymbolTable, constants |-> <<>>, globals |-> <<>>,
     nextId |-> 0 - 1, lines |-> 0, printed |-> <<>>, bound |-> <<>>]

InitRepl ==
    /\ repl = NewRepl
    /\ code = NoCode
    /\ prog = NoProgram
    /\ comp = [NewCompiler EXCEPT !.compiled = TRUE]
    /\ vm = NoVM
    /\ last = NoLast
    /\ ev = NoEval
    /\ SymIdle

\* prompter(PROMPT), parseProgram() and new Compiler(symbolTable, constants)
ReplPrompt ==
    /\ repl.phase = "prompt"
    /\ repl.lines < MaxReplLines
    /\ \E i \in 1..Len(ReplInputs) : prog' = [set |-> "repl", id |-> i, arg |-> 0]
    /\ comp' = NewCompilerWith(repl.symbolTable, repl.constants, repl.nextId)
    /\ repl' = [repl EXCEPT !.phase = "compile", !.lines = @ + 1]
    /\ UNCHANGED <<code, tables, symLast, vm, last, ev>>

\* compiler.compile(program): the shared symbol table and constants take what
\* it defines and adds; a CompileError is printed and the loop continues
ReplCompile ==
    /\ repl.phase = "compile"
    /\ comp' = [compile(comp, ReplInputs[prog.id]) EXCEPT !.compiled = TRUE]
    /\ repl' = [repl EXCEPT !.phase = IF comp'.err # "" THEN "prompt" ELSE "run",
                             !.symbolTable = comp'.tables[1],
                             !.constants = comp'.constants,
                             !.nextId = comp'.nextId,
                             !.printed = IF comp'.err # "" THEN <<"CompileError: " \o comp'.err>>
                                         ELSE <<>>]
    /\ UNCHANGED <<code, tables, symLast, prog, vm, last, ev>>

\* new VM(compiler.bytecode(), globals), vm.run(), and the value is printed
ReplRun ==
    /\ repl.phase = "run"
    /\ vm' = run(NewVM(bytecode(comp), repl.globals, repl.nextId))
    /\ repl' = [repl EXCEPT !.phase = "prompt",
                             !.globals = vm'.globals,
                             !.nextId = vm'.nextId,
                             !.bound = IF vm'.status # "done" THEN @
                                       ELSE BoundAfter(@, ReplInputs[prog.id], repl.symbolTable,
                                                       vm'.globals),
                             !.printed = IF vm'.status # "done" THEN vm'.out \o <<vm'.err>>
                                         ELSE IF lastPoppedStackElement(vm').type \in {"EMPTY", "BREAK"}
                                         THEN vm'.out
                                         ELSE vm'.out \o <<inspect(lastPoppedStackElement(vm'))>>]
    /\ UNCHANGED <<code, tables, symLast, prog, comp, last, ev>>

NextRepl ==
    \/ ReplPrompt
    \/ ReplCompile
    \/ ReplRun

SpecRepl == InitRepl /\ [][NextRepl]_vars

-----------------------------------------------------------------------------
(* The symbol-table API driven by an arbitrary caller *)

\* the builtin index a caller registers a name under
SymBuiltinIndex(n) == IF n = "a" THEN 0 ELSE 1

SymCall(op, t, n, r) ==
    /\ symLast.calls < MaxSymCalls
    /\ tables' = r.tables
    /\ symLast' = [op |-> op, t |-> t, name |-> n, sym |-> r.sym, calls |-> symLast.calls + 1,
                   again |-> symLast.op = op /\ symLast.t = t /\ symLast.name = n]
    /\ UNCHANGED progVars

\* a chain of freshly constructed tables: new SymbolTable(), new SymbolTable(outer), ...
SymInit ==
    /\ \E d \in 1..MaxTables : tables = [i \in 1..d |-> NewSymbolTable]
    /\ symLast = [op |-> "new", t |-> 1, name |-> "", sym |-> NoSymbol, calls |-> 0,
                  again |-> FALSE]
    /\ prog = NoProgram
    /\ comp = NewCompiler
    /\ vm = NoVM
    /\ last = NoLast
    /\ ev = NoEval
    /\ repl = NoRepl
    /\ code = NoCode

\* new SymbolTable(outer) on the innermost table
SymNewChild ==
    /\ Len(tables) < MaxTables
    /\ SymCall("new", Len(tables) + 1, "", [sym |-> NoSymbol, tables |-> Append(tables, NewSymbolTable)])

\* the innermost table goes out of use (the compiler's leaveScope)
SymLeave ==
    /\ Len(tables) > 1
    /\ SymCall("leave", Len(tables), "", [sym |-> NoSymbol, tables |-> SubSeq(tables, 1, Len(tables) - 1)])

SymDefine ==
    \E t \in 1..Len(tables), n \in SymNames :
        /\ tables[t].numDefinitions < MaxDefs
        /\ SymCall("define", t, n, define(tables, t, n))

SymDefineBuiltin ==
    \E t \in 1..Len(tables), n \in SymNames :
        SymCall("defineBuiltin", t, n, defineBuiltin(tables, t, SymBuiltinIndex(n), n))

SymDefineFunctionName ==
    \E t \in 1..Len(tables), n \in SymNames :
        SymCall("defineFunctionName", t, n, defineFunctionName(tables, t, n))

SymResolve ==
    \E t \in 1..Len(tables), n \in SymNames :
        SymCall("resolve", t, n, resolve(tables, t, n))

SymNext ==
    \/ SymNewChild
    \/ SymLeave
    \/ SymDefine
    \/ SymDefineBuiltin
    \/ SymDefineFunctionName
    \/ SymResolve

SpecSym == SymInit /\ [][SymNext]_vars

-----------------------------------------------------------------------------
(* The specification of the instruction encoding: make and readOperands on  *)
(* one instruction, disassemble on a byte sequence                          *)

\* the longest byte sequence that is disassembled
MaxCodeLen == 4

\* operands at the ends and in the middle of the range of each width
OperandSamples(width) == IF width = 2 THEN {0, 1, 255, 256, 65535} ELSE {0, 1, 255}

OperandTuples(op) ==
    LET widths == operandWidths(op)
    IN  {t \in [1..Len(widths) -> OperandSamples(2)] :
            \A i \in 1..Len(widths) : t[i] \in OperandSamples(widths[i])}

\* bytes of listings: opcodes without operand, with one of one byte, one of two
\* bytes and two operands, and two bytes that are no opcode
ListingBytes == {OpConstant, OpTrue, OpGetLocal, OpClosure, OpCurrentClosure + 1, 255}

RECURSIVE ByteSeqs(_)
ByteSeqs(n) ==
    IF n = 0 THEN {<<>>}
    ELSE ByteSeqs(n - 1) \cup {Append(b, x) : b \in {y \in ByteSeqs(n - 1) : Len(y) = n - 1},
                                              x \in ListingBytes}

\* make(op, ...operands)
MakeInstruction ==
    /\ code.phase = "idle"
    /\ \E op \in OpConstant..OpCurrentClosure : \E operands \in OperandTuples(op) :
          code' = [phase |-> "made", op |-> op, operands |-> operands, ins |-> make(op, operands)]
    /\ UNCHANGED <<repl, tables, symLast, prog, comp, vm, last, ev>>

\* readOperands(lookupDefinition(op), instruction, 1)
ReadInstruction ==
    /\ code.phase = "made"
    /\ code' = [phase |-> "read", op |-> code.op, operands |-> code.operands, ins |-> code.ins,
                read |-> readOperands(code.op, code.ins, 1)]
    /\ UNCHANGED <<repl, tables, symLast, prog, comp, vm, last, ev>>

\* disassemble(instructions) is entered
Disassemble ==
    /\ code.phase = "idle"
    /\ \E ins \in ByteSeqs(MaxCodeLen) : code' = NewListing(ins)
    /\ UNCHANGED <<repl, tables, symLast, prog, comp, vm, last, ev>>

\* while (offset < instructions.length): one turn
DisassembleTurn ==
    /\ code.phase = "listing"
    /\ code.offset < Len(code.ins)
    /\ code' = disassembleTurn(code)
    /\ UNCHANGED <<repl, tables, symLast, prog, comp, vm, last, ev>>

\* the loop is left: return s.join('\n')
DisassembleReturn ==
    /\ code.phase = "listing"
    /\ code.offset >= Len(code.ins)
    /\ code' = [phase |-> "listed", ins |-> code.ins, offset |-> code.offset, s |-> code.s,
                out |-> join(code.s, "\n")]
    /\ UNCHANGED <<repl, tables, symLast, prog, comp, vm, last, ev>>

InitCode ==
    /\ code = NoCode
    /\ repl = NoRepl
    /\ prog = NoProgram
    /\ comp = NewCompiler
    /\ vm = NoVM
    /\ last = NoLast
    /\ ev = NoEval
    /\ SymIdle

NextCode ==
    \/ MakeInstruction
    \/ ReadInstruction
    \/ Disassemble
    \/ DisassembleTurn
    \/ DisassembleReturn

SpecCode == InitCode /\ [][NextCode]_vars

\* a call that was entered is run: the turns of the loop follow one another
SpecCodeLive == SpecCode /\ WF_vars(DisassembleTurn) /\ WF_vars(DisassembleReturn)

(***************************************************************************)
(* Claims about the instruction encoding                                   *)
(***************************************************************************)

RECURSIVE SumOf(_)
SumOf(widths) == IF widths = <<>> THEN 0 ELSE Head(widths) + SumOf(Tail(widths))

\* C15: for an opcode with a definition and operands that fit their widths,
\* readOperands at offset 1 of make(op, operands) gives these operands back
\* and has read as many bytes as the widths sum up to, and the instruction is
\* one byte longer than that.
C15_MakeReadOperands ==
    (code.phase = "read") =>
        /\ ~code.read.threw
        /\ code.read.operands = code.operands
        /\ code.read.bytesRead = SumOf(operandWidths(code.op))
        /\ Len(code.ins) = 1 + SumOf(operandWidths(code.op))
        /\ code.ins[1] = code.op

\* the two operands of an OpClosure at the top of their ranges were read back
C15_Witness ==
    /\ code.phase = "read"
    /\ code.op = OpClosure
    /\ code.operands = <<65535, 255>>
    /\ code.ins = <<OpClosure, 255, 255, 255>>
    /\ code.read.operands = <<65535, 255>>

\* the lines the listing of ins from offset on is to have: the error line for
\* a byte that is no opcode and on with the next byte, the line of the
\* instruction and on behind its operands
RECURSIVE ListingFrom(_, _)
ListingFrom(ins, offset) ==
    IF offset >= Len(ins) THEN <<>>
    ELSE LET byte == ins[offset + 1]
             width == SumOf(operandWidths(byte))
         IN  IF ~lookupDefinition(byte)
             THEN <<"ERROR: invalid opcode " \o ToString(byte)>> \o ListingFrom(ins, offset + 1)
             ELSE IF offset + 1 + width > Len(ins) THEN <<>>
             ELSE <<padStart(ToString(offset), 4, "0") \o " "
                      \o formatInstruction(byte, readOperands(byte, ins, offset + 1).operands)>>
                  \o ListingFrom(ins, offset + 1 + width)

\* the last instruction of ins lacks bytes of its operands
RECURSIVE Truncated(_, _)
Truncated(ins, offset) ==
    IF offset >= Len(ins) THEN FALSE
    ELSE IF ~lookupDefinition(ins[offset + 1]) THEN Truncated(ins, offset + 1)
    ELSE LET next == offset + 1 + SumOf(operandWidths(ins[offset + 1]))
         IN  next > Len(ins) \/ Truncated(ins, next)

\* C16: disassemble comes to an end on every byte sequence; a byte at an
\* instruction boundary that is no opcode gets the line 'ERROR: invalid opcode
\* <n>' and the listing goes on behind it; every instruction gets one line
\* 'NNNN OpName operands' at its offset.
C16_Disassemble ==
    /\ (code.phase = "listing") ~> (code.phase \in {"listed", "threw"})
    /\ []((code.phase = "listed") => (code.s = ListingFrom(code.ins, 0)))
    /\ []((code.phase = "threw") => Truncated(code.ins, 0))

-----------------------------------------------------------------------------
(* Claims about the symbol table, checked under SpecSym *)

\* the nearest table outside table t of chain ts that stores name n (0 when none does)
NearestOuter(ts, t, n) ==
    LET holders == {a \in 1..(t - 1) : n \in DOMAIN ts[a].store}
    IN  IF holders = {} THEN 0 ELSE CHOOSE a \in holders : \A b \in holders : b <= a

PromotedNames(table) == {table.freeSymbols[i].name : i \in 1..Len(table.freeSymbols)}

C8ResolveStep ==
    LET t == symLast'.t
        n == symLast'.name
        r == symLast'.sym
        a == NearestOuter(tables, t, n)
        anc == tables[a].store[n]
    IN  (/\ symLast'.op = "resolve"
         /\ symLast'.calls = symLast.calls + 1
         /\ n \notin DOMAIN tables[t].store
         /\ a > 0)
        =>  IF anc.scope \in {GlobalScope, BuiltinScope}
            THEN r = anc /\ tables' = tables
            ELSE LET parentSym == tables'[t - 1].store[n]
                 IN  /\ (a = t - 1 => parentSym = anc)
                     /\ (a < t - 1 => parentSym.scope = FreeScope)
                     /\ parentSym.scope \in {LocalScope, FreeScope}
                         => /\ r = ISymbol(n, FreeScope, Cardinality(PromotedNames(tables[t])))
                            /\ tables'[t].freeSymbols = Append(tables[t].freeSymbols, parentSym)
                            /\ tables'[t].freeSymbols[r.index + 1] = parentSym
                            /\ tables'[t].store[n] = r

\* C8: resolve(name) in a child table returns a Global or Builtin symbol of an
\* ancestor unchanged (and changes no table), and turns a Local or Free symbol of
\* its parent into a Free symbol of the child whose index is the number of
\* distinct names promoted in that child before, with freeSymbols[index] the
\* parent's symbol.
C8_ResolvePromotes == [][C8ResolveStep]_vars

\* a second name is promoted in a grandchild: its parent's symbol is itself Free
C8_Witness ==
    /\ symLast.op = "resolve"
    /\ symLast.t = 3
    /\ symLast.sym.scope = FreeScope
    /\ symLast.sym.index = 1
    /\ Len(tables) = 3
    /\ Len(tables[3].freeSymbols) = 2
    /\ tables[3].freeSymbols[1].scope = LocalScope
    /\ tables[3].freeSymbols[2].scope = FreeScope
    /\ tables[3].freeSymbols[2].name = symLast.name

\* C30: after any calls of define, defineBuiltin, defineFunctionName and
\* resolve on a chain of tables, no table's freeSymbols holds a symbol of
\* scope Global or Builtin, and the freeSymbols of the main table is empty.
C30_FreeSymbolsScopes ==
    /\ tables[1].freeSymbols = <<>>
    /\ \A t \in 1..Len(tables) : \A i \in 1..Len(tables[t].freeSymbols) :
          tables[t].freeSymbols[i].scope \notin {GlobalScope, BuiltinScope}

\* resolve in the grandchild has returned a Global or Builtin symbol of an
\* outer table while the grandchild holds a free symbol
C30_Witness ==
    /\ symLast.op = "resolve"
    /\ symLast.t = 3
    /\ symLast.sym.scope \in {GlobalScope, BuiltinScope}
    /\ symLast.name \notin DOMAIN tables[3].store
    /\ tables[3].freeSymbols # <<>>
    /\ tables[2].freeSymbols = <<>>

\* the tables from the root to table t: table t and the outer tables of its chain
Chain(t) == 1..t

C33ResolveStep ==
    LET t == symLast'.t
        n == symLast'.name
    IN  (symLast'.op = "resolve" /\ symLast'.calls = symLast.calls + 1) =>
            IF \A a \in Chain(t) : n \notin DOMAIN tables[a].store
            THEN symLast'.sym = NoSymbol /\ tables' = tables
            ELSE symLast'.sym # NoSymbol /\ symLast'.sym.name = n

\* C33: resolve(name) on a table returns undefined when neither the table nor
\* any outer table of its chain has name in its store, whatever the tables
\* inside it define, and then store, numDefinitions and freeSymbols of every
\* table are as before; when a table of the chain has name, a symbol of that
\* name is returned
C33_ResolveUndefined == [][C33ResolveStep]_vars

\* resolve in a child table has returned undefined for a name that a table
\* inside the child defines, and an earlier resolve has left a free symbol
C33_Witness ==
    /\ symLast.op = "resolve"
    /\ symLast.sym = NoSymbol
    /\ symLast.t = 2
    /\ Len(tables) >= 3
    /\ symLast.name \in DOMAIN tables[3].store
    /\ tables[2].freeSymbols # <<>>

\* the number of entries of freeSymbols that have the name n
FreeCount(table, n) ==
    Cardinality({i \in 1..Len(table.freeSymbols) : table.freeSymbols[i].name = n})

C38ResolveStep ==
    LET t == symLast'.t
        n == symLast'.name
        a == NearestOuter(tables, t, n)
        between == (a + 1)..t
    IN  (symLast'.op = "resolve" /\ symLast'.calls = symLast.calls + 1) =>
            /\ symLast'.again => (symLast'.sym = symLast.sym /\ tables' = tables)
            /\ (/\ n \notin DOMAIN tables[t].store
                /\ a > 0
                /\ tables[a].store[n].scope \notin {GlobalScope, BuiltinScope})
               => \A b \in 1..Len(tables) :
                     IF b \in between
                     THEN /\ FreeCount(tables[b], n) = 0
                          /\ FreeCount(tables'[b], n) = 1
                          /\ Len(tables'[b].freeSymbols) = Len(tables[b].freeSymbols) + 1
                     ELSE tables'[b] = tables[b]

\* C38: a resolve(name) that follows a resolve(name) on the same table, with
\* no call between them, returns a symbol equal to the first one's and leaves
\* every table, freeSymbols included, as it was; and a resolve that reaches a
\* Local, Free or Function symbol in an outer table adds the name exactly once
\* to the freeSymbols of every table from the one below the holder to the one
\* resolve was called on, and changes no other table
C38_ResolveIdempotent == [][C38ResolveStep]_vars

\* resolve was called twice in a row in the grandchild for a name of the root
\* table that is promoted: it is a free symbol of the child and of the
\* grandchild, once in each
C38_Witness ==
    /\ symLast.op = "resolve" /\ symLast.again
    /\ symLast.t = 3
    /\ symLast.sym.scope = FreeScope
    /\ NearestOuter(tables, 2, symLast.name) = 1
    /\ FreeCount(tables[2], symLast.name) = 1
    /\ FreeCount(tables[3], symLast.name) = 1

-----------------------------------------------------------------------------
(* Claims about the VM *)

\* the third byte after the opcode the VM executed last: OpClosure's numFree
LastNumFree == readUInt8(NextInstructions(last.pre), NextIp(last.pre) + 3)

\* C1: executing OpClosure funcIndex, numFree from a state with stack pointer s
\* pops the numFree captured values: afterwards sp = s - numFree + 1, the new
\* closure is at stack[s - numFree], and its free[i] is the value that was at
\* stack[s - numFree + i], for every 0 <= i < numFree.
C1_OpClosurePopsFree ==
    (last.op = OpClosure /\ vm.err = "") =>
        LET s == last.pre.sp
            closure == StackGet(vm, s - LastNumFree)
        IN  /\ vm.sp = s - LastNumFree + 1
            /\ closure.type = "CLOSURE"
            /\ closure.id = last.pre.nextId
            /\ Len(closure.free) = LastNumFree
            /\ \A i \in 0..(LastNumFree - 1) :
                    closure.free[i + 1] = StackGet(last.pre, s - LastNumFree + i)

C4_FramesBounded == vm.framesIndex <= FRAMES_SIZE

\* C5: in every reachable VM state sp <= STACK_SIZE: a push or the reservation
\* sp = basePointer + numLocals of a closure call that would move sp past the
\* limit raises 'stack overflow' instead.
C5_StackBounded == vm.sp <= STACK_SIZE

\* C34: in every state of run() in which a frame is current, sp is at least
\* basePointer + numLocals of that frame, 0 in the main frame: nothing has
\* been popped from the local slots of the frame or from below the stack
C34_StackAboveLocals ==
    (vm.status \in {"running", "done"} /\ vm.framesIndex >= 1) =>
        vm.sp >= currentFrame(vm).basePointer + currentFrame(vm).cl.func.numLocals

\* C35: in every state of run() framesIndex >= 1: the main frame is never
\* popped and currentFrame() is defined
C35_MainFrameKept == vm.status \in {"running", "done"} => vm.framesIndex >= 1

(***************************************************************************)
(* Claims about calls                                                      *)
(***************************************************************************)

\* the OpCall executed last: its operand, its callee and its arguments
LastNumArgs == Operand8(AddIp(last.pre, 1))
LastCallee == StackGet(last.pre, last.pre.sp - 1 - LastNumArgs)
LastArgs == [i \in 1..LastNumArgs |-> StackGet(last.pre, last.pre.sp - LastNumArgs + i - 1)]

\* C11: OpCall k on a closure whose numParameters is not k raises the runtime
\* error 'wrong number of arguments: expected <numParameters>, got <k>' and
\* pushes no frame: framesIndex and sp are what they were before the OpCall.
C11_WrongArity ==
    (/\ last.op = OpCall
     /\ LastCallee.type = "CLOSURE"
     /\ LastCallee.func.numParameters # LastNumArgs)
        => /\ vm.status = "error"
           /\ vm.err = "wrong number of arguments: expected "
                        \o ToString(LastCallee.func.numParameters)
                        \o ", got " \o ToString(LastNumArgs)
           /\ vm.framesIndex = last.pre.framesIndex
           /\ vm.frames = [last.pre.frames EXCEPT ![last.pre.framesIndex].ip = @ + 2]
           /\ vm.sp = last.pre.sp

\* a closure of one parameter was called with two arguments
C11_Witness ==
    /\ last.op = OpCall
    /\ LastCallee.type = "CLOSURE"
    /\ LastCallee.func.numParameters = 1
    /\ LastNumArgs = 2
    /\ vm.status = "error"

\* what the builtin called last returns for the k topmost stack values
LastBuiltinResult == builtinFunc(LastCallee.index, LastArgs, last.pre.nextId)

ErrorOnStack(v) == \E i \in 0..(v.sp - 1) : StackGet(v, i).type = "ERROR"

\* the builtin call executed last replaced callee and arguments by the result,
\* or aborted run() with the message of the Error object returned
C12BuiltinReturned ==
    IF LastBuiltinResult.type = "ERROR"
    THEN vm.status = "error" /\ vm.err = LastBuiltinResult.message
    ELSE /\ vm.status = "running"
         /\ vm.sp = last.pre.sp - LastNumArgs
         /\ StackGet(vm, vm.sp - 1) = LastBuiltinResult
         /\ \A i \in 0..(vm.sp - 2) : StackGet(vm, i) = StackGet(last.pre, i)

\* C12: OpCall k on a builtin from stack pointer s passes the k
\* topmost stack values in push order, then replaces callee and arguments by
\* the result (sp = s - k); if the builtin returns an Error object run() aborts
\* with its message, and no Error object is ever on the stack.
C12_BuiltinCall ==
    /\ ~ErrorOnStack(vm)
    /\ (last.op = OpCall /\ LastCallee.type = "BUILTIN") => C12BuiltinReturned

(***************************************************************************)
(* Claims about values                                                     *)
(***************************************************************************)

\* the Integer objects that are obj or are inside it
RECURSIVE IntegersIn(_)
IntegersIn(obj) ==
    CASE obj.type = "INTEGER" -> {obj}
      [] obj.type = "ARRAY" -> UNION {IntegersIn(obj.elements[i]) : i \in 1..Len(obj.elements)}
      [] obj.type = "HASH" ->
            UNION {IntegersIn(obj.pairs[i].key) \cup IntegersIn(obj.pairs[i].value) :
                     i \in 1..Len(obj.pairs)}
      [] obj.type = "CLOSURE" -> UNION {IntegersIn(obj.free[i]) : i \in 1..Len(obj.free)}
      [] OTHER -> {}

\* the Integer objects of a VM: in its constants, on its stack, in its globals
VmIntegers(v) ==
    UNION ({IntegersIn(v.constants[i]) : i \in 1..Len(v.constants)}
           \cup {IntegersIn(StackGet(v, i)) : i \in 0..(v.sp - 1)}
           \cup {IntegersIn(v.globals[i]) : i \in 1..Len(v.globals)})

\* C13: any two Integer objects of the same numeric payload that the VM holds
\* (in the constant pool, on the stack, in the globals, inside arrays, hashes
\* or closures) are the same object.
C13_IntegersCanonical ==
    \A a, b \in VmIntegers(vm) : a.value = b.value => a.id = b.id

\* the operands of the comparison that the last step executed
LastRight == StackGet(last.pre, last.pre.sp - 1)
LastLeft == StackGet(last.pre, last.pre.sp - 2)

\* the last step replaced the two operands by the Boolean singleton of b
PushedBoolean(b) ==
    /\ vm.status = "running"
    /\ vm.sp = last.pre.sp - 1
    /\ StackTop(vm) = (IF b THEN BOOLEAN_TRUE ELSE BOOLEAN_FALSE)
    /\ StackTop(vm).id \in {TRUE_ID, FALSE_ID}

\* C14: on two Integers OpEqual, OpNotEqual and OpGreaterThan compare the
\* payloads, whatever the identities; on every other pair OpEqual and
\* OpNotEqual decide by identity and OpGreaterThan raises an error that ends
\* run(); what a comparison pushes is one of the two Boolean singletons.
C14_Comparison ==
    (last.op \in {OpEqual, OpNotEqual, OpGreaterThan}) =>
        IF LastLeft.type = "INTEGER" /\ LastRight.type = "INTEGER"
        THEN PushedBoolean(CASE last.op = OpEqual -> LastLeft.value = LastRight.value
                             [] last.op = OpNotEqual -> LastLeft.value # LastRight.value
                             [] OTHER -> LastLeft.value > LastRight.value)
        ELSE IF last.op = OpGreaterThan
             THEN vm.status \in {"error", "crash"} /\ vm.framesIndex = last.pre.framesIndex
             ELSE PushedBoolean((last.op = OpEqual) <=> (LastLeft.id = LastRight.id))

\* two different Integer objects of the same payload have compared equal
C14_Witness ==
    /\ last.op = OpEqual
    /\ LastLeft.type = "INTEGER" /\ LastRight.type = "INTEGER"
    /\ LastLeft.value = LastRight.value /\ LastLeft.id # LastRight.id
    /\ StackTop(vm) = BOOLEAN_TRUE

\* C20: OpIndex pops the index and the collection and pushes one value or
\* raises: an Array with an Integer index i gives element i when 0 <= i <
\* length and NULL otherwise; a Hash gives the value stored under a hashable
\* index or NULL, and raises 'unusable as hash key: <T>' for an index that is
\* not hashable; every other pair raises 'index operator not supported:
\* <L>[<I>]'.
C20_Index ==
    (last.op = OpIndex) =>
        LET index == LastRight
            left == LastLeft
            pushed(obj) == /\ vm.status = "running"
                           /\ vm.sp = last.pre.sp - 1
                           /\ StackTop(vm) = obj
            raised(msg) == vm.status = "error" /\ vm.err = msg
        IN  IF left.type = "ARRAY" /\ index.type = "INTEGER"
            THEN pushed(IF 0 <= index.value /\ index.value < Len(left.elements)
                        THEN left.elements[index.value + 1] ELSE NULL)
            ELSE IF left.type = "HASH" /\ Hashable(index)
            THEN pushed(IF \E i \in 1..Len(left.pairs) : left.pairs[i].hash = HashKey(index)
                        THEN MapGet(left.pairs, HashKey(index)).value ELSE NULL)
            ELSE IF left.type = "HASH"
            THEN raised("unusable as hash key: " \o index.type)
            ELSE raised("index operator not supported: " \o left.type \o "[" \o index.type \o "]")

\* a and b have the same type and the same payload
SamePayload(a, b) == a.type = b.type /\ a.value = b.value

\* the stack slots of the keys that the OpHash of the last step read
LastHashKeySlots ==
    {i \in (last.pre.sp - Operand16(AddIp(last.pre, 1)))..(last.pre.sp - 1) :
        (last.pre.sp - i) % 2 = 0}

\* C21: a Hash built by OpHash has one entry for the keys of one type and
\* payload, whatever objects they are, and every pair read is under its key's
\* type and payload; OpIndex on a Hash with an Integer, Boolean or String index
\* pushes the value of the entry whose key has the type and payload of the
\* index, whatever object the index is, and NULL when no entry has both.
C21_HashStable ==
    /\ (last.op = OpHash /\ vm.status = "running") =>
          LET pairs == StackTop(vm).pairs
          IN  /\ \A k \in LastHashKeySlots :
                    \E i \in 1..Len(pairs) : SamePayload(pairs[i].key, StackGet(last.pre, k))
              /\ \A i \in 1..Len(pairs) :
                    \E k \in LastHashKeySlots : /\ pairs[i].key = StackGet(last.pre, k)
                                                /\ pairs[i].value = StackGet(last.pre, k + 1)
              /\ \A i, j \in 1..Len(pairs) : SamePayload(pairs[i].key, pairs[j].key) => i = j
    /\ (last.op = OpIndex /\ LastLeft.type = "HASH" /\ Hashable(LastRight)) =>
          LET pairs == LastLeft.pairs
              found == {i \in 1..Len(pairs) : SamePayload(pairs[i].key, LastRight)}
          IN  /\ vm.status = "running"
              /\ vm.sp = last.pre.sp - 1
              /\ Cardinality(found) <= 1
              /\ StackTop(vm) = IF found = {} THEN NULL ELSE pairs[CHOOSE i \in found : TRUE].value

\* a String index has found the entry stored under another String object of
\* the same contents, in a Hash that has keys of the three types
C21_Witness ==
    /\ last.op = OpIndex
    /\ LastLeft.type = "HASH" /\ LastRight.type = "STRING"
    /\ {LastLeft.pairs[i].key.type : i \in 1..Len(LastLeft.pairs)} = {"INTEGER", "BOOLEAN", "STRING"}
    /\ \E i \in 1..Len(LastLeft.pairs) :
          /\ SamePayload(LastLeft.pairs[i].key, LastRight)
          /\ LastLeft.pairs[i].key.id # LastRight.id
          /\ StackTop(vm) = LastLeft.pairs[i].value

\* q is a / b truncated toward zero
IsTruncatedQuotient(q, a, b) ==
    /\ b # 0
    /\ LET r == a - q * b
       IN  /\ Abs(r) < Abs(b)
           /\ r # 0 => (r > 0) = (a > 0)

\* C29: OpAdd, OpSub, OpMul and OpDiv on two Integer operands a (below) and
\* b (on top) push the Integer a + b, a - b, a * b and a / b truncated toward
\* zero: for every pair of operands the instruction pushes an Integer whose
\* payload is an integer.
C29_IntegerArithmetic ==
    (/\ last.op \in {OpAdd, OpSub, OpMul, OpDiv}
     /\ LastLeft.type = "INTEGER" /\ LastRight.type = "INTEGER") =>
        /\ vm.status = "running"
        /\ vm.sp = last.pre.sp - 1
        /\ StackTop(vm).type = "INTEGER"
        /\ StackTop(vm).value \in Int
        /\ CASE last.op = OpAdd -> StackTop(vm).value = LastLeft.value + LastRight.value
             [] last.op = OpSub -> StackTop(vm).value = LastLeft.value - LastRight.value
             [] last.op = OpMul -> StackTop(vm).value = LastLeft.value * LastRight.value
             [] last.op = OpDiv ->
                   IsTruncatedQuotient(StackTop(vm).value, LastLeft.value, LastRight.value)

(***************************************************************************)
(* Claims about if-expressions                                             *)
(***************************************************************************)

\* C25: an if-expression that the VM executes from stack pointer s, whichever
\* branch it takes, reaches the instruction after it with sp = s + 1, the
\* value of the expression the one value left; a run that returns has reached
\* the end of every if-expression it entered in the main frame.
C25_IfLeavesOneValue ==
    /\ \A i \in 1..Len(last.closed) : last.closed[i].sp = last.closed[i].s + 1
    /\ vm.status = "done" => last.ifs = <<>>

(***************************************************************************)
(* Claims about the value a run leaves                                     *)
(***************************************************************************)

LastStatement == TheProgram.statements[Len(TheProgram.statements)]

\* C23: when run() has returned for a program with at least one statement,
\* stack[sp] is the value that the most recently executed pop removed: the
\* last instruction executed is the OpPop or OpSetGlobal that ends the last
\* statement and stack[sp] is what was on top before it; when the last
\* statement is an expression statement the instruction is OpPop and the
\* value is an object, the value its expression pushed.
C23_LastPopped ==
    (vm.status = "done" /\ prog.set = "general" /\ Len(TheProgram.statements) >= 1) =>
        /\ last.op \in {OpPop, OpSetGlobal}
        /\ vm.sp = last.pre.sp - 1
        /\ lastPoppedStackElement(vm) = StackTop(last.pre)
        /\ LastStatement.kind = "ExpressionStatement" =>
              /\ last.op = OpPop
              /\ lastPoppedStackElement(vm) # Undefined

(***************************************************************************)
(* Claims about compiled code                                              *)
(***************************************************************************)

\* the offsets at which the instructions of ins start, up to the first byte
\* that is no opcode or the end
RECURSIVE InstructionStarts(_, _)
InstructionStarts(ins, offset) ==
    IF offset >= Len(ins) \/ ~lookupDefinition(ins[offset + 1]) THEN {}
    ELSE {offset} \cup InstructionStarts(ins, offset + 1 + SumOf(operandWidths(ins[offset + 1])))

\* ins is a sequence of whole instructions
WellFormed(ins) ==
    \/ ins = <<>>
    \/ \E o \in InstructionStarts(ins, 0) : o + 1 + SumOf(operandWidths(ins[o + 1])) = Len(ins)

\* the opcode of the last instruction of ins (-1 when there is none)
LastOpcode(ins) ==
    LET starts == InstructionStarts(ins, 0)
    IN  IF starts = {} THEN 0 - 1
        ELSE ins[(CHOOSE o \in starts : \A o2 \in starts : o2 <= o) + 1]

\* the CompiledFunction objects in the constant pool of the compiler
CompiledFunctions ==
    {comp.constants[i] : i \in {j \in 1..Len(comp.constants) :
                                  comp.constants[j].type = "COMPILED_FUNCTION"}}

\* C26: every CompiledFunction of a compiled program is a sequence of whole
\* instructions whose last one is OpReturnValue or OpReturnNull; while run()
\* executes the frame of a called function the loop condition holds (its ip
\* is not at the end of its instructions); and when run() has returned, the
\* only frame is the main frame and its ip is at the end of the main program.
C26_FunctionsReturn ==
    /\ (comp.compiled /\ comp.err = "") =>
          \A f \in CompiledFunctions :
              /\ WellFormed(f.instructions)
              /\ LastOpcode(f.instructions) \in {OpReturnValue, OpReturnNull}
    /\ (vm.status = "running" /\ vm.framesIndex > 1) => LoopCondition(vm)
    /\ vm.status = "done" =>
          /\ vm.framesIndex = 1
          /\ currentFrame(vm).ip = Len(bytecode(comp).instructions) - 1
          /\ NextInstructions(vm) = bytecode(comp).instructions

\* a function whose body ends with a let and that returns from inside an if
\* was called, has returned through its OpReturnNull, and run() returned
C26_Witness ==
    /\ prog.set = "general" /\ prog.id = 58
    /\ vm.status = "done"
    /\ last.op = OpPop
    /\ StackTop(last.pre) = NULL
    /\ \E f \in CompiledFunctions : LastOpcode(f.instructions) = OpReturnNull

\* the names that the function of entry e of the log defines in its own scope
InnerNames(e) ==
    {e.node.parameters[i] : i \in 1..Len(e.node.parameters)} \cup {e.lets[i] : i \in 1..Len(e.lets)}

\* the bytes that loading symbol sym takes
LoadLength(sym) ==
    CASE sym.scope = GlobalScope -> 1 + SumOf(operandWidths(OpGetGlobal))
      [] sym.scope = LocalScope -> 1 + SumOf(operandWidths(OpGetLocal))
      [] sym.scope = BuiltinScope -> 1 + SumOf(operandWidths(OpGetBuiltin))
      [] sym.scope = FreeScope -> 1 + SumOf(operandWidths(OpGetFree))
      [] OTHER -> 1 + SumOf(operandWidths(OpCurrentClosure))

RECURSIVE LoadLengths(_)
LoadLengths(syms) == IF syms = <<>> THEN 0 ELSE LoadLength(Head(syms)) + LoadLengths(Tail(syms))

\* C27: after compile() has returned without error, scopeIndex is 0, the scope
\* stack holds the main scope only and the current symbol table is the main
\* table without outer; for every function literal compiled, the tables of the
\* enclosing scopes bind a name that the function defines (parameter or let)
\* only if they bound it before the function was entered, and to the same
\* symbol; and the enclosing scope's instructions after the literal are its
\* instructions before, the loads of the free symbols and the OpClosure.
C27_ScopesRestored ==
    (comp.compiled /\ comp.err = "") =>
        /\ comp.scopeIndex = 0
        /\ Len(comp.scopes) = 1
        /\ Len(comp.tables) = 1
        /\ \A i \in 1..Len(comp.fnLog) :
              LET e == comp.fnLog[i]
              IN  /\ Len(e.outerTables) = Len(e.enteredTables)
                  /\ e.scopeIndex = Len(e.enteredTables) - 1
                  /\ \A k \in 1..Len(e.outerTables) : \A x \in InnerNames(e) :
                        x \in DOMAIN e.outerTables[k].store =>
                            /\ x \in DOMAIN e.enteredTables[k].store
                            /\ e.outerTables[k].store[x] = e.enteredTables[k].store[x]
                  /\ Len(e.outerInstructions) =
                        Len(e.enteredInstructions) + LoadLengths(e.freeSymbols)
                        + 1 + SumOf(operandWidths(OpClosure))
                  /\ SubSeq(e.outerInstructions, 1, Len(e.enteredInstructions)) = e.enteredInstructions

\* a program was compiled in which a function with a parameter is nested in
\* a function with a let, and a function that captures free symbols
C27_Witness ==
    /\ comp.compiled /\ comp.err = ""
    /\ comp.scopeIndex = 0
    /\ \E i, j \in 1..Len(comp.fnLog) :
          /\ comp.fnLog[i].scopeIndex >= 1
          /\ comp.fnLog[i].node.parameters # <<>>
          /\ comp.fnLog[j].scopeIndex = 0
          /\ comp.fnLog[j].lets # <<>>
    /\ \E i \in 1..Len(comp.fnLog) : comp.fnLog[i].freeSymbols # <<>>

\* the offsets in ins of the instructions of opcode op
StartsOf(ins, op) == {o \in InstructionStarts(ins, 0) : ins[o + 1] = op}

\* the jumps of the instruction sequence ins are those of the if-expressions
\* ifs compiled into it, with the operands of the claim
JumpsOf(ins, ifs) ==
    /\ WellFormed(ins)
    /\ StartsOf(ins, OpJumpNotTruthy) = {ifs[i].jumpNotTruthyAt : i \in 1..Len(ifs)}
    /\ StartsOf(ins, OpJump) = {ifs[i].jumpAt : i \in 1..Len(ifs)}
    /\ Cardinality(StartsOf(ins, OpJump)) = Len(ifs)
    /\ \A o \in StartsOf(ins, OpJumpNotTruthy) \cup StartsOf(ins, OpJump) :
          readUint16BE(ins, o + 1) # 9999
    /\ \A i \in 1..Len(ifs) :
          LET afterJump == readUint16BE(ins, ifs[i].jumpNotTruthyAt + 1)
              afterAlternative == readUint16BE(ins, ifs[i].jumpAt + 1)
          IN  /\ afterJump = ifs[i].jumpAt + 1 + SumOf(operandWidths(OpJump))
              /\ afterAlternative = ifs[i].endAt
              /\ afterJump \in InstructionStarts(ins, 0)
              /\ afterAlternative \in InstructionStarts(ins, 0)
              /\ afterJump <= afterAlternative
              /\ WellFormed(SubSeq(ins, afterJump + 1, afterAlternative))
              /\ ~ifs[i].hasAlternative =>
                    /\ ins[afterJump + 1] = OpNull
                    /\ afterAlternative = afterJump + 1

\* C28: in the bytecode of a compiled program, main program and every
\* CompiledFunction, the operand of the OpJumpNotTruthy of an if-expression is
\* the offset of the first byte after its OpJump (the OpNull when there is no
\* alternative), the operand of the OpJump is the offset of the first byte
\* after the alternative, both are offsets at which an instruction of the
\* same sequence starts, and no jump has the operand 9999.
C28_JumpTargets ==
    (comp.compiled /\ comp.err = "") =>
        /\ JumpsOf(bytecode(comp).instructions, comp.ifLog)
        /\ \A i \in 1..Len(comp.fnLog) :
              JumpsOf(comp.constants[comp.fnLog[i].funcIndex + 1].instructions, comp.fnLog[i].ifs)

\* a function was compiled that has an if with an alternative and, inside a
\* branch of another if, an if without
C28_Witness ==
    /\ comp.compiled /\ comp.err = ""
    /\ \E i \in 1..Len(comp.fnLog) :
          LET ifs == comp.fnLog[i].ifs
          IN  \E a, b, d \in 1..Len(ifs) :
                /\ ifs[a].jumpNotTruthyAt > ifs[b].jumpNotTruthyAt
                /\ ifs[a].endAt <= ifs[b].endAt
                /\ ~ifs[a].hasAlternative
                /\ ifs[d].hasAlternative

(***************************************************************************)
(* Claims about local bindings                                             *)
(***************************************************************************)

\* the names a function defines, in the order of its define calls
DefinedNames(e) == e.node.parameters \o e.lets

\* the operands of the instructions of opcode op in ins
OperandsOf(ins, op) == {readUInt8(ins, o + 1) : o \in StartsOf(ins, op)}

\* the call that the frame being executed belongs to
CurrentCall == last.calls[Len(last.calls)]

C36_ReadsWritten ==
    /\ last.op = OpGetGlobal => Operand16(AddIp(last.pre, 1)) \in last.globalsSet
    /\ (last.op = OpGetLocal /\ last.calls # <<>>) =>
          \/ Operand8(AddIp(last.pre, 1)) < CurrentCall.k
          \/ Operand8(AddIp(last.pre, 1)) \in CurrentCall.written

(***************************************************************************)
(* Claims about the builtins                                               *)
(***************************************************************************)

\* the index the builtin table is to give a name
FixedBuiltinIndex(name) ==
    CASE name = "len" -> 0 [] name = "puts" -> 1 [] name = "first" -> 2
      [] name = "last" -> 3 [] name = "rest" -> 4 [] name = "push" -> 5
      [] OTHER -> 0 - 1

\* the references that the compiler made an OpGetBuiltin for
BuiltinRefs == {i \in 1..Len(comp.refLog) : comp.refLog[i].op = OpGetBuiltin}

LastIsPush ==
    /\ last.op = OpCall /\ LastCallee.type = "BUILTIN"
    /\ BuiltinNames[LastCallee.index + 1] = "push"
    /\ LastNumArgs = 2 /\ LastArgs[1].type = "ARRAY"
LastIsRest ==
    /\ last.op = OpCall /\ LastCallee.type = "BUILTIN"
    /\ BuiltinNames[LastCallee.index + 1] = "rest"
    /\ LastNumArgs = 1 /\ LastArgs[1].type = "ARRAY"

\* the objects of v that are arr, on the stack slots in use before the call
\* (the slot of the argument included) and in the globals, are as they were
ArgumentKept(arr) ==
    /\ vm.globals = last.pre.globals
    /\ \A i \in 0..(last.pre.sp - 1) :
          StackGet(last.pre, i).id = arr.id => StackGet(vm, i) = StackGet(last.pre, i)

\* C24: push(arr, x) and rest(arr) leave arr with the elements it had; push
\* returns a new Array of length len(arr) + 1 whose elements are those of arr
\* and then x, rest returns a new Array of the elements 1..len-1, or NULL
\* when arr is empty.
C24_PushRestPure ==
    /\ LastIsPush =>
          /\ vm.status = "running"
          /\ ArgumentKept(LastArgs[1])
          /\ StackTop(vm).type = "ARRAY"
          /\ StackTop(vm).id = last.pre.nextId
          /\ StackTop(vm).id # LastArgs[1].id
          /\ Len(StackTop(vm).elements) = Len(LastArgs[1].elements) + 1
          /\ StackTop(vm).elements[Len(StackTop(vm).elements)] = LastArgs[2]
          /\ \A i \in 1..Len(LastArgs[1].elements) :
                StackTop(vm).elements[i] = LastArgs[1].elements[i]
    /\ LastIsRest =>
          /\ vm.status = "running"
          /\ ArgumentKept(LastArgs[1])
          /\ IF LastArgs[1].elements = <<>> THEN StackTop(vm) = NULL
             ELSE /\ StackTop(vm).type = "ARRAY"
                  /\ StackTop(vm).id = last.pre.nextId
                  /\ StackTop(vm).id # LastArgs[1].id
                  /\ Len(StackTop(vm).elements) = Len(LastArgs[1].elements) - 1
                  /\ \A i \in 1..Len(StackTop(vm).elements) :
                        StackTop(vm).elements[i] = LastArgs[1].elements[i + 1]

\* push(b, a) was called with Arrays held by globals, which hold them unchanged
C24_Witness ==
    /\ LastIsPush
    /\ LastArgs[2].type = "ARRAY"
    /\ \E i \in 1..Len(vm.globals) : vm.globals[i] = LastArgs[1]
    /\ Len(StackTop(vm).elements) = 4

(***************************************************************************)
(* Claims about the REPL                                                   *)
(***************************************************************************)

\* the line at hand compiled; r is a reference of it to a global that an
\* earlier line bound and that the line does not bind itself
RefersToBound(r) ==
    /\ repl.phase = "run"
    /\ r.name \in DOMAIN repl.bound
    /\ r.name \notin LetNamesOf(ReplInputs[prog.id])
    /\ ~r.shadowed

IsPrefix(a, b) == Len(a) <= Len(b) /\ SubSeq(b, 1, Len(a)) = a

\* C17: a global that a let bound in a line that compiled and ran without
\* error stays defined: a later line that refers to the name loads it with
\* OpGetGlobal of the index the let stored to, and the globals hold the value
\* stored there; the constant pool only grows, so that an index into it keeps
\* its constant.
C17_GlobalsPersist ==
    /\ [](\A i \in 1..Len(comp.refLog) :
            RefersToBound(comp.refLog[i]) =>
                /\ comp.refLog[i].op = OpGetGlobal
                /\ comp.refLog[i].operands = <<repl.bound[comp.refLog[i].name].index>>
                /\ GetAt(repl.globals, repl.bound[comp.refLog[i].name].index)
                      = repl.bound[comp.refLog[i].name].value)
    /\ [][IsPrefix(repl.constants, repl'.constants)]_vars

C37FailedCompileStep ==
    (repl.phase = "compile" /\ repl'.phase = "prompt") =>
        /\ repl'.symbolTable = repl.symbolTable
        /\ repl'.constants = repl.constants

\* C37: when the compilation of a line fails with a CompileError, the symbol
\* table and the constant pool that the lines share are as they were before
\* the line: no definition and no constant was added
C37_FailedCompileKeepsState == [][C37FailedCompileStep]_vars

(***************************************************************************)
(* Claims about the evaluator                                              *)
(***************************************************************************)

\* C18: in the evaluator, when the evaluation of a sub-expression (an operand,
\* a callee or argument, an array element, a key or value of a hash literal,
\* an index operand, a condition) yields an Error, the enclosing expression
\* evaluates to that Error and no later sub-expression is evaluated: the first
\* Error that evaluate returns is what the evaluation ends with, and evaluate
\* is not entered again after it.
C18_ErrorsPropagate ==
    (ev.status = "done" /\ ev.firstErr # NoError)
        => ev.result = ev.firstErr /\ ev.after = 0

\* store has an entry for name
Binds(store, name) == \E i \in 1..Len(store) : store[i].name = name

\* the innermost environment from env outward that binds name, 0 when none does
RECURSIVE Binder(_, _, _)
Binder(envs, env, name) ==
    IF Binds(envs[env].store, name) THEN env
    ELSE IF envs[env].outer = 0 THEN 0
    ELSE Binder(envs, envs[env].outer, name)

\* store with the value of name replaced by value
Rebound(store, name, value) ==
    [i \in 1..Len(store) |-> IF store[i].name = name THEN [name |-> name, value |-> value]
                             ELSE store[i]]

\* C19: in the evaluator an assignment x = v changes exactly one binding,
\* that of x in the innermost environment from the current one outward that
\* binds x, and no other environment; when none binds x it returns the error
\* "cant assign to undefined identifier: 'x'" and no environment changes.
C19_AssignInnermost ==
    (ev.status = "done") =>
        \A i \in 1..Len(ev.assigns) :
            LET a == ev.assigns[i]
                target == Binder(a.before, a.env, a.name)
            IN  IF target = 0
                THEN /\ a.result = ErrorObj("cant assign to undefined identifier: '"
                                            \o a.name \o "'")
                     /\ a.after = a.before
                ELSE /\ a.result = EMPTY
                     /\ a.after = [a.before EXCEPT
                                     ![target].store = Rebound(@, a.name, a.value)]

\* the events of the evaluation that was run
Trail == IF ev.status = "idle" THEN <<>> ELSE ev.trail
LetsRun == IF ev.status = "idle" THEN <<>> ELSE ev.lets
BlockEvents == {i \in 1..Len(Trail) : Trail[i].kind \in {"if", "body"}}

\* C32: in the evaluator a branch of an if and each iteration of the body of a
\* while run in an environment that did not exist before, empty when made and
\* with the current environment as its outer one; a let statement changes no
\* environment but the one it runs in, so a let of the block leaves the
\* surrounding environment as it was; and every evaluation of the condition
\* of a while, the first and the later ones, is in the environment the while
\* expression was entered in
C32_BlockEnvironments ==
    /\ \A i \in BlockEvents :
          /\ Trail[i].blockEnv > Trail[i].had
          /\ Trail[i].created = [store |-> <<>>, outer |-> Trail[i].env]
    /\ \A i \in 1..Len(Trail) :
          Trail[i].kind \in {"cond", "body", "result"} =>
              /\ Trail[Trail[i].loop].kind = "while"
              /\ Trail[i].env = Trail[Trail[i].loop].env
    /\ \A j \in 1..Len(LetsRun) :
          LET l == LetsRun[j]
          IN  /\ Len(l.after) = Len(l.before)
              /\ \A k \in 1..Len(l.before) : k # l.env => l.after[k] = l.before[k]
              /\ \A i \in BlockEvents :
                    Trail[i].blockEnv = l.env => l.after[Trail[i].env] = l.before[Trail[i].env]

\* a second iteration of a while body has bound, in its own environment, a name
\* that the surrounding environment binds too, the condition was evaluated
\* after it, and a branch of an if did the same in another evaluation
C32_Witness ==
    /\ ev.status = "done"
    /\ \E i, i2 \in BlockEvents, j \in 1..Len(LetsRun), c \in 1..Len(Trail) :
          /\ Trail[i].kind = "body" /\ Trail[i2].kind = "body"
          /\ i2 < i /\ Trail[i2].loop = Trail[i].loop
          /\ LetsRun[j].env = Trail[i].blockEnv
          /\ Binds(LetsRun[j].before[Trail[i].env].store, LetsRun[j].name)
          /\ Binds(LetsRun[j].after[Trail[i].blockEnv].store, LetsRun[j].name)
          /\ c > i /\ Trail[c].kind = "cond" /\ Trail[c].loop = Trail[i].loop
    /\ ev.result = INTEGER(5)

\* a branch of an if has bound a name that the surrounding environment binds
C32_IfWitness ==
    /\ ev.status = "done"
    /\ \E i \in BlockEvents, j \in 1..Len(LetsRun) :
          /\ Trail[i].kind = "if"
          /\ LetsRun[j].env = Trail[i].blockEnv
          /\ Binds(LetsRun[j].before[Trail[i].env].store, LetsRun[j].name)

\* the iterations of a while body that ended with a return statement
ReturnedInLoop ==
    {i \in 1..Len(Trail) : Trail[i].kind = "result" /\ Trail[i].value.type = "RETURN_VALUE"}

\* C39: in the evaluator, once the body of a while has returned the value of
\* a return statement, that loop is over: its condition is not evaluated
\* again and its body does not run again; and the function call that returns
\* next, the enclosing one, returns that value
C39_ReturnEndsLoop ==
    \A i \in ReturnedInLoop :
        /\ \A j \in (i + 1)..Len(Trail) :
              Trail[j].loop = Trail[i].loop => Trail[j].kind \notin {"cond", "body", "result"}
        /\ \A j \in (i + 1)..Len(Trail) :
              (Trail[j].kind = "apply" /\ \A m \in (i + 1)..(j - 1) : Trail[m].kind # "apply")
                  => Trail[j].value = Trail[i].value.returnValue

\* C40: in the evaluator the body of a while runs after an evaluation of its
\* condition exactly when the value of the condition is neither FALSE nor
\* NULL, the values for which an if takes its consequence: every evaluation of
\* the condition to such a value is followed by an iteration of the body, and
\* no other is
C40_WhileTruthiness ==
    \A i \in 1..Len(Trail) :
        Trail[i].kind = "cond" =>
            (isTruthyEval(Trail[i].value)
                <=> (i < Len(Trail) /\ Trail[i + 1].kind = "body"
                        /\ Trail[i + 1].loop = Trail[i].loop))

(***************************************************************************)
(* Claims about the two engines                                            *)
(***************************************************************************)

VmFailed == comp.err # "" \/ vm.status \in {"error", "crash"}
EvalFailed == ev.status = "thrown" \/ ev.result.type = "ERROR"

\* the kind of a value: a closure and a function object are both functions
KindOf(obj) == IF obj.type \in {"CLOSURE", "FUNCTION"} THEN "FUNCTION" ELSE obj.type

\* two values of the same kind and payload
RECURSIVE SameValue(_, _)
SameValue(a, b) ==
    /\ KindOf(a) = KindOf(b)
    /\ CASE a.type \in {"INTEGER", "BOOLEAN", "STRING"} -> a.value = b.value
          [] a.type = "ARRAY" ->
                /\ Len(a.elements) = Len(b.elements)
                /\ \A i \in 1..Len(a.elements) : SameValue(a.elements[i], b.elements[i])
          [] a.type = "HASH" ->
                /\ Len(a.pairs) = Len(b.pairs)
                /\ \A i \in 1..Len(a.pairs) :
                      LET other == MapGet(b.pairs, a.pairs[i].hash)
                      IN  other # Undefined /\ SameValue(a.pairs[i].value, other.value)
          [] a.type = "BUILTIN" -> a.index = b.index
          [] OTHER -> TRUE

\* C3: when a program of the common subset has gone through both engines, the
\* evaluator and the compiler with the VM, either both ended in an error or
\* both ended with a final value of the same kind and payload.
C3_SameResult ==
    (VmOver /\ vm.status # "nonfinite" /\ ev.status \in {"done", "thrown"})
        => IF VmFailed \/ EvalFailed THEN VmFailed /\ EvalFailed
           ELSE SameValue(lastPoppedStackElement(vm), ev.result)

\* the symbol that resolve(name) returns in the main scope of compiler c
MainResolve(c, name) == resolve(c.tables, 1, name).sym

\* C6: a Compiler that was just constructed, with no arguments or with the
\* symbol table and the constants of its caller, resolves each builtin name in
\* its main scope to the Builtin-scope symbol with the builtin's fixed index.
C6_BuiltinsResolve ==
    ~comp.compiled
        => \A i \in 1..Len(BuiltinNames) :
              MainResolve(comp, BuiltinNames[i]) = ISymbol(BuiltinNames[i], BuiltinScope, i - 1)

(***************************************************************************)
(* Claims about the compiler                                               *)
(***************************************************************************)

\* the let statements of a function body: those of its blocks, not those of
\* the function literals inside it
RECURSIVE CountLets(_), CountLetsAll(_)
CountLets(node) ==
    CASE node.kind \in {"Program", "BlockStatement"} -> CountLetsAll(node.statements)
      [] node.kind = "LetStatement" -> 1 + CountLets(node.value)
      [] node.kind \in {"ExpressionStatement", "ReturnStatement"} -> CountLets(node.value)
      [] node.kind = "PrefixExpression" -> CountLets(node.right)
      [] node.kind = "InfixExpression" -> CountLets(node.left) + CountLets(node.right)
      [] node.kind = "IfExpression" ->
            CountLets(node.condition) + CountLets(node.consequence) + CountLets(node.alternative)
      [] node.kind = "IndexExpression" -> CountLets(node.left) + CountLets(node.index)
      [] node.kind = "CallExpression" -> CountLets(node.func) + CountLetsAll(node.args)
      [] node.kind = "ArrayLiteral" -> CountLetsAll(node.elements)
      [] node.kind = "HashLiteral" ->
            CountLetsAll([i \in 1..Len(node.pairs) |-> node.pairs[i][1]])
            + CountLetsAll([i \in 1..Len(node.pairs) |-> node.pairs[i][2]])
      [] OTHER -> 0
CountLetsAll(nodes) ==
    IF nodes = <<>> THEN 0 ELSE CountLets(Head(nodes)) + CountLetsAll(Tail(nodes))

FnLogEntries == {comp.fnLog[i] : i \in 1..Len(comp.fnLog)}

LoadOf(sym) ==
    CASE sym.scope = GlobalScope -> make(OpGetGlobal, <<sym.index>>)
      [] sym.scope = LocalScope -> make(OpGetLocal, <<sym.index>>)
      [] sym.scope = BuiltinScope -> make(OpGetBuiltin, <<sym.index>>)
      [] sym.scope = FreeScope -> make(OpGetFree, <<sym.index>>)
      [] sym.scope = FunctionScope -> make(OpCurrentClosure, <<>>)

RECURSIVE LoadsOf(_)
LoadsOf(syms) == IF syms = <<>> THEN <<>> ELSE LoadOf(Head(syms)) \o LoadsOf(Tail(syms))

C9Compiled(e) ==
    LET loads == LoadsOf(e.freeSymbols)
        n == Len(e.freeSymbols)
        closure == make(OpClosure, <<e.funcIndex, n>>)
    IN  /\ e.closureAt >= Len(loads)
        /\ SubSeq(e.outerInstructions, e.closureAt - Len(loads) + 1, e.closureAt) = loads
        /\ SubSeq(e.outerInstructions, e.closureAt + 1, e.closureAt + Len(closure)) = closure
        /\ \A i \in 1..n :
              resolve(e.outerTables, Len(e.outerTables), e.freeSymbols[i].name).sym = e.freeSymbols[i]

\* C9: for a function literal compiled inside another function, the enclosing
\* scope's instructions have, immediately before OpClosure, one load for each
\* of freeSymbols in order, the i-th loading what the name of freeSymbols[i]
\* resolves to in the enclosing scope, and OpClosure's second operand is
\* freeSymbols.length; and OpGetFree i pushes the value that the i-th captured
\* variable had in the enclosing frame when OpClosure built the closure.
C9_FreeVariables ==
    /\ \A e \in FnLogEntries : e.scopeIndex >= 1 => C9Compiled(e)
    /\ (last.op = OpGetFree /\ vm.err = "")
          => LET cl == currentFrame(last.pre).cl
                 i == Operand8(AddIp(last.pre, 1))
             IN  /\ cl.id \in DOMAIN last.built
                 /\ i < Len(last.built[cl.id])
                 /\ StackTop(vm) = last.built[cl.id][i + 1]

\* OpGetFree 1 has run in a closure that captured two variables, one of them a
\* free variable of the enclosing function
C9_Witness ==
    /\ last.op = OpGetFree
    /\ vm.err = ""
    /\ Operand8(AddIp(last.pre, 1)) = 1
    /\ \E e \in FnLogEntries :
          /\ e.scopeIndex >= 1
          /\ Len(e.freeSymbols) >= 2
          /\ \E i \in 1..Len(e.freeSymbols) : e.freeSymbols[i].scope = FreeScope
          /\ currentFrame(last.pre).cl.func.id = GetAt(vm.constants, e.funcIndex).id

\* C10: an identifier f compiled directly in the body of a function literal
\* that a let named f, neither a parameter of it nor bound by a let statement
\* of it compiled before, is loaded by OpCurrentClosure; and OpCurrentClosure
\* pushes the closure of the frame that executes it.
C10_SelfReference ==
    /\ \A i \in 1..Len(comp.refLog) :
          LET r == comp.refLog[i]
          IN  (r.fn # "" /\ r.name = r.fn /\ ~r.shadowed) => r.op = OpCurrentClosure
    /\ (last.op = OpCurrentClosure /\ vm.err = "")
          => /\ StackTop(vm) = currentFrame(last.pre).cl
             /\ vm.sp = last.pre.sp + 1

\* OpCurrentClosure has run in a function that was let-bound inside another
\* function and refers to itself
C10_Witness ==
    /\ last.op = OpCurrentClosure
    /\ vm.err = ""
    /\ last.pre.framesIndex >= 3
    /\ \E i \in 1..Len(comp.refLog) :
          LET r == comp.refLog[i]
          IN  r.fn # "" /\ r.name = r.fn /\ ~r.shadowed /\ r.depth >= 2

====
